---- MODULE Spec2Model ----
(***************************************************************************)
(* Referral-recruitment backend: the Application lifecycle, the referral   *)
(* payment ledger and the denormalised counters on Job / Company / User,   *)
(* as implemented by controllers/applicationController.js,                 *)
(* controllers/jobController.js, controllers/authController.js and the     *)
(* mongoose models.  A handler is modelled await by await: each store call *)
(* it awaits is one action, and the requests in flight interleave at       *)
(* their awaits.                                                           *)
(***************************************************************************)
EXTENDS Integers, Sequences, FiniteSets, TLC

VARIABLES
    users,          \* User collection: referralCode, referralStats
    companies,      \* Company collection: stats
    jobs,           \* Job collection (NoJob = no such document)
    applications,   \* Application collection, in insertion order (_id = index)
    now,            \* wall clock (new Date())
    reqs,           \* the requests: where each handler stands, its locals, its answer
    nops            \* number of requests that have arrived so far

\* the request count and the positions of the requests come first: every
\* step changes one of them
vars == <<nops, [r \in DOMAIN reqs |-> reqs[r].pc],
          users, companies, jobs, applications, now, reqs>>

----------------------------------------------------------------------------
(* Bounds of the model *)

MaxOps == 3
MaxSubmitOps == 3
MaxJobOps == 3
MaxRaceOps == 2
MaxBoardOps == 3
MaxInterviewOps == 3
MaxOrphanOps == 2
MaxEditOps == 3
MaxHireOps == 3
MaxSweepOps == 2
MaxAccessOps == 2
MaxTime == 2

----------------------------------------------------------------------------
(* Identities and vocabularies *)

Null == "null"
NoJob == [exists |-> FALSE]
NoDate == -1
Absent == "absent"
AbsentFee == -1
AbsentCount == -1
AbsentDate == -2

Users == {"u1", "u2"}
Companies == {"c1", "c2"}
JobIds == {"j1", "j2"}
JobOrder == [j \in JobIds |-> IF j = "j1" THEN 1 ELSE 2]

JobStatuses == {"draft", "active", "paused", "closed", "filled"}
AppStatuses == {"pending", "reviewing", "shortlisted", "interviewing",
                "offered", "hired", "rejected", "withdrawn"}
validStatuses == {"pending", "reviewing", "shortlisted", "interviewing",
                  "offered", "hired", "rejected"}

DefaultReferralFee == 1000
OtherReferralFee == 2500
Fees == {DefaultReferralFee, OtherReferralFee}

----------------------------------------------------------------------------
(* Referral codes: strings over a small alphabet, as sequences of chars *)

NullCode == <<>>

UpperOf == [ch \in {"a", "b", "x", "A", "B", "X", "1", "2", "9"} |->
              CASE ch = "a" -> "A"
                [] ch = "b" -> "B"
                [] ch = "x" -> "X"
                [] OTHER -> ch]

\* variant: the code is looked up as it was typed
toUpperCaseIdentity(s) == s

toUpperCase(s) == [i \in 1..Len(s) |-> UpperOf[s[i]]]

StoredCode == [u \in Users |-> IF u = "u1" THEN <<"A", "1">> ELSE <<"B", "2">>]

InputCodes == {NullCode, <<"a", "1">>, <<"A", "1">>, <<"b", "2">>,
               <<"B", "2">>, <<"x", "9">>}

\* the codes of the requests whose referral plays no part: none, and u1's
PlainCodes == {NullCode, <<"a", "1">>}

\* User.findOne({ referralCode: c }): exact match on the stored code
findOneByReferralCode(us, c) ==
    IF \E u \in Users : us[u].referralCode = c
    THEN CHOOSE u \in Users : us[u].referralCode = c
    ELSE Null

\* variant: the referrer is not compared with the applicant
ResolveReferralAllowSelf(us, applicant, code) ==
    IF code = NullCode THEN <<Null, FALSE, NullCode>>
    ELSE LET referrer == findOneByReferralCode(us, toUpperCase(code)) IN
         IF referrer # Null
         THEN <<referrer, TRUE, toUpperCase(code)>>
         ELSE <<Null, FALSE, NullCode>>

\* referral tracking of submitApplication: <<referredBy, isReferral, referralCode>>
ResolveReferral(us, applicant, code) ==
    IF code = NullCode THEN <<Null, FALSE, NullCode>>
    ELSE LET referrer == findOneByReferralCode(us, toUpperCase(code)) IN
         IF referrer # Null /\ referrer # applicant
         THEN <<referrer, TRUE, toUpperCase(code)>>
         ELSE <<Null, FALSE, NullCode>>

----------------------------------------------------------------------------
(* Documents *)

ZeroReferralStats ==
    [totalReferrals |-> 0, successfulReferrals |-> 0, totalEarnings |-> 0,
     pendingEarnings |-> 0, paidEarnings |-> 0]

ZeroCompanyStats ==
    [totalJobsPosted |-> 0, activeJobs |-> 0, totalApplications |-> 0,
     totalHires |-> 0]

DefaultReferralPayment == [isEligible |-> FALSE, amount |-> 0, status |-> "pending"]

NewJob(c, st, fee, deadline) ==
    [exists |-> TRUE, companyId |-> c, status |-> st, referralFee |-> fee,
     applicationDeadline |-> deadline, closedDate |-> NoDate,
     stats |-> [applications |-> 0, referralApplications |-> 0]]

NewApplication(j, u, c, ref) ==
    [jobId |-> j, applicantId |-> u, companyId |-> c,
     referredBy |-> ref[1], referralCode |-> ref[3], isReferral |-> ref[2],
     status |-> "pending", statusHistory |-> <<>>, interviews |-> 0,
     referralPayment |-> DefaultReferralPayment]

HistoryEntry(st, by, model) == [status |-> st, updatedBy |-> by, updatedByModel |-> model]

\* validator of applicationSettings.applicationDeadline, run at time t:
\* return !value || value > new Date()
deadlineIsValid(deadline, t) == deadline = NoDate \/ deadline > t

----------------------------------------------------------------------------
(* Store primitives *)

\* Model.findByIdAndUpdate(id, { $inc: { field: n } }): no-op when id is absent
IncUserStat(us, u, field, n) ==
    IF u \in DOMAIN us THEN [us EXCEPT ![u].referralStats[field] = @ + n] ELSE us

IncCompanyStat(cs, c, field, n) ==
    IF c \in DOMAIN cs THEN [cs EXCEPT ![c].stats[field] = @ + n] ELSE cs

IncJobStat(js, j, field, n) ==
    IF js[j].exists THEN [js EXCEPT ![j].stats[field] = @ + n] ELSE js

\* unique index { jobId: 1, applicantId: 1 } of the Application collection
UniqueIndexViolated(apps, doc) ==
    \E i \in DOMAIN apps :
        apps[i].jobId = doc.jobId /\ apps[i].applicantId = doc.applicantId

\* variant: the lookup matches the referrer instead of the applicant
ExistingApplicationByReferrer(apps, j, u) ==
    \E i \in DOMAIN apps : apps[i].jobId = j /\ apps[i].referredBy = u

\* Application.findOne({ jobId, applicantId })
ExistingApplication(apps, j, u) ==
    \E i \in DOMAIN apps : apps[i].jobId = j /\ apps[i].applicantId = u

----------------------------------------------------------------------------
(* Requests: every await of a handler is a scheduling point *)

ReqIds == {1, 2}

\* a request slot: the handler serving it (op), where it stands (pc), its
\* inputs, its local variables (doc, aux, at) and the response sent
IdleReq == [op |-> "none", pc |-> "idle", caller |-> Null, target |-> Null,
            arg |-> Null, doc |-> Null, aux |-> Null, at |-> NoDate,
            result |-> "none"]

\* a request is served on the first free slot: the slot only names the request
FreeSlot(r) ==
    /\ reqs[r].pc \in {"idle", "done"}
    /\ \A x \in ReqIds : x < r => reqs[x].pc \notin {"idle", "done"}

\* a request arrives on slot r in this step
Arrived(r) == FreeSlot(r) /\ nops' # nops

\* request r has left one of its awaits in this step
Resumed(r, op) ==
    /\ reqs[r].op = op
    /\ reqs[r].pc \notin {"idle", "done"}
    /\ reqs'[r].pc # reqs[r].pc

\* no request is in flight
Quiescent == \A r \in ReqIds : reqs[r].pc \in {"idle", "done"}

\* res.status(..).json(..): the answer is kept with the request
Finish(r, result) ==
    reqs' = [reqs EXCEPT ![r].pc = "done", ![r].result = result]

Goto(r, pc) == reqs' = [reqs EXCEPT ![r].pc = pc]

----------------------------------------------------------------------------
(* middleware/auth.js: the routes behind requireUser / requireCompany *)

\* an authenticated caller is a user account or a company account
Actors == Users \cup Companies

\* req.userType, set by the auth middleware from the token
userType(a) == IF a \in Users THEN "user" ELSE "company"

\* variant: the route lets every authenticated caller through
requireUserAny(a) == TRUE

\* requireUser: next() only if req.userType === 'user'
requireUser(a) == userType(a) = "user"

\* requireCompany: next() only if req.userType === 'company'
requireCompany(a) == userType(a) = "company"

\* the middleware answers 403 and the handler is not run
Denied(r, op, a, target, arg) ==
    /\ FreeSlot(r)
    /\ nops' = nops + 1
    /\ reqs' = [reqs EXCEPT ![r] = [IdleReq EXCEPT !.op = op, !.pc = "done",
                                        !.caller = a, !.target = target, !.arg = arg,
                                        !.result = "Access denied"]]
    /\ UNCHANGED <<users, companies, jobs, applications, now>>

\* the route's check of the body answers 400 and the handler is not run
Refused(r, op, a, target, arg, error) ==
    /\ FreeSlot(r)
    /\ nops' = nops + 1
    /\ reqs' = [reqs EXCEPT ![r] = [IdleReq EXCEPT !.op = op, !.pc = "done",
                                        !.caller = a, !.target = target, !.arg = arg,
                                        !.result = error]]
    /\ UNCHANGED <<users, companies, jobs, applications, now>>

----------------------------------------------------------------------------
(* submitApplication *)

\* variant: every status but the closing ones
AcceptingStatusesNotClosed == JobStatuses \ {"closed", "filled"}

\* if (job.status !== 'active') return 400
AcceptingStatuses == {"active"}

\* Job.findByIdAndUpdate(jobId, { $inc: applications (, referralApplications) })
submitIncJob(js, j, ref) ==
    LET js1 == IncJobStat(js, j, "applications", 1) IN
    IF ref[2] THEN IncJobStat(js1, j, "referralApplications", 1) ELSE js1

\* if (isReferral && referredBy) User.findByIdAndUpdate(.. totalReferrals ..)
submitIncReferrer(us, ref) ==
    IF ref[2] /\ ref[1] # Null THEN IncUserStat(us, ref[1], "totalReferrals", 1) ELSE us

\* Company.findByIdAndUpdate(job.companyId, { $inc: totalApplications })
submitIncCompany(cs, c) == IncCompanyStat(cs, c, "totalApplications", 1)

\* a user's request with a jobId and the consent given passes the route's
\* checks and enters the handler on slot r
StartSubmit(r, u, j, code) ==
    /\ FreeSlot(r)
    /\ nops' = nops + 1
    /\ reqs' = [reqs EXCEPT ![r] = [IdleReq EXCEPT !.op = "submitApplication",
                                        !.pc = "findJob", !.caller = u,
                                        !.target = j, !.arg = code]]
    /\ UNCHANGED <<users, companies, jobs, applications, now>>

\* const job = await Job.findById(jobId), and the checks on it
SubmitFindJob(r) ==
    /\ reqs[r].op = "submitApplication" /\ reqs[r].pc = "findJob"
    /\ UNCHANGED <<users, companies, jobs, applications, now, nops>>
    /\ LET job == jobs[reqs[r].target] IN
       IF ~job.exists THEN Finish(r, "Job not found")
       ELSE IF job.status \notin AcceptingStatuses
       THEN Finish(r, "Job not accepting applications")
       ELSE /\ reqs' = [reqs EXCEPT ![r].pc = "findExisting", ![r].doc = job]

\* const existingApplication = await Application.findOne({ jobId, applicantId })
SubmitFindExisting(r) ==
    /\ reqs[r].op = "submitApplication" /\ reqs[r].pc = "findExisting"
    /\ UNCHANGED <<users, companies, jobs, applications, now, nops>>
    /\ IF ExistingApplication(applications, reqs[r].target, reqs[r].caller)
       THEN Finish(r, "Already applied")
       ELSE /\ Goto(r, "findReferrer")

\* const referrer = await User.findOne({ referralCode: ... })
SubmitFindReferrer(r) ==
    /\ reqs[r].op = "submitApplication" /\ reqs[r].pc = "findReferrer"
    /\ reqs' = [reqs EXCEPT ![r].pc = "create",
                            ![r].aux = ResolveReferral(users, reqs[r].caller, reqs[r].arg)]
    /\ UNCHANGED <<users, companies, jobs, applications, now, nops>>

\* await Application.create({...}); a rejected insert lands in the catch block
SubmitCreate(r) ==
    /\ reqs[r].op = "submitApplication" /\ reqs[r].pc = "create"
    /\ UNCHANGED <<users, companies, jobs, now, nops>>
    /\ LET doc == NewApplication(reqs[r].target, reqs[r].caller,
                                 reqs[r].doc.companyId, reqs[r].aux)
       IN  IF UniqueIndexViolated(applications, doc)
           THEN /\ Finish(r, "Server error")
                /\ UNCHANGED applications
           ELSE /\ applications' = Append(applications, doc)
                /\ Goto(r, "incJob")

\* await Job.findByIdAndUpdate(jobId, { $inc: ... })
SubmitIncJob(r) ==
    /\ reqs[r].op = "submitApplication" /\ reqs[r].pc = "incJob"
    /\ jobs' = submitIncJob(jobs, reqs[r].target, reqs[r].aux)
    /\ Goto(r, "incReferrer")
    /\ UNCHANGED <<users, companies, applications, now, nops>>

\* await User.findByIdAndUpdate(referredBy, { $inc: totalReferrals })
SubmitIncReferrer(r) ==
    /\ reqs[r].op = "submitApplication" /\ reqs[r].pc = "incReferrer"
    /\ users' = submitIncReferrer(users, reqs[r].aux)
    /\ Goto(r, "incCompany")
    /\ UNCHANGED <<companies, jobs, applications, now, nops>>

\* await Company.findByIdAndUpdate(job.companyId._id, { $inc: totalApplications })
SubmitIncCompany(r) ==
    /\ reqs[r].op = "submitApplication" /\ reqs[r].pc = "incCompany"
    /\ companies' = submitIncCompany(companies, reqs[r].doc.companyId)
    /\ Goto(r, "populate")
    /\ UNCHANGED <<users, jobs, applications, now, nops>>

\* await application.populate([...]); res.status(201).json
SubmitPopulate(r) ==
    /\ reqs[r].op = "submitApplication" /\ reqs[r].pc = "populate"
    /\ Finish(r, "created")
    /\ UNCHANGED <<users, companies, jobs, applications, now, nops>>

\* an awaited findByIdAndUpdate, or the populate, rejects: control passes to
\* the catch block, which answers 500 and undoes nothing
SubmitStepFails(r) ==
    /\ reqs[r].op = "submitApplication"
    /\ reqs[r].pc \in {"incJob", "incReferrer", "incCompany", "populate"}
    /\ Finish(r, "Server error")
    /\ UNCHANGED <<users, companies, jobs, applications, now, nops>>

\* the jobId of a request body: a job id, or none
JobIdInputs == JobIds \cup {Absent}

\* the consent of a request body: none, dataProcessing false, or given
ConsentInputs == {Absent, "refused", "given"}

\* router.post('/', auth, requireUser, (req, res, next) => ..., submitApplication)
PostApplication(r, a, j, code, consent) ==
    IF ~requireUser(a) THEN Denied(r, "submitApplication", a, j, code)
    ELSE IF j = Absent
         THEN Refused(r, "submitApplication", a, j, code, "Missing job ID")
    ELSE IF consent # "given"
         THEN Refused(r, "submitApplication", a, j, code, "Consent required")
    ELSE StartSubmit(r, a, j, code)

----------------------------------------------------------------------------
(* registerUser of authController.js, for a new e-mail address: the account
   it creates is not one of Users, its referrer may be *)

\* POST /api/auth/register with referredBy = code
StartRegister(r, code) ==
    /\ FreeSlot(r)
    /\ nops' = nops + 1
    /\ reqs' = [reqs EXCEPT ![r] = [IdleReq EXCEPT !.op = "registerUser",
                                        !.pc = "findUser", !.arg = code]]
    /\ UNCHANGED <<users, companies, jobs, applications, now>>

\* const existingUser = await User.findOne({ email }): none, the address is new
RegisterFindUser(r) ==
    /\ reqs[r].op = "registerUser" /\ reqs[r].pc = "findUser"
    /\ Goto(r, "findCompany")
    /\ UNCHANGED <<users, companies, jobs, applications, now, nops>>

\* const existingCompany = await Company.findOne({ email }): none;
\* if (referredBy) the referrer is looked up next
RegisterFindCompany(r) ==
    /\ reqs[r].op = "registerUser" /\ reqs[r].pc = "findCompany"
    /\ Goto(r, IF reqs[r].arg = NullCode THEN "create" ELSE "findReferrer")
    /\ UNCHANGED <<users, companies, jobs, applications, now, nops>>

\* const referrer = await User.findByReferralCode(referredBy)
RegisterFindReferrer(r) ==
    /\ reqs[r].op = "registerUser" /\ reqs[r].pc = "findReferrer"
    /\ reqs' = [reqs EXCEPT ![r].pc = "create",
                            ![r].aux = findOneByReferralCode(users, toUpperCase(reqs[r].arg))]
    /\ UNCHANGED <<users, companies, jobs, applications, now, nops>>

\* const user = await User.create(userData)
RegisterCreate(r) ==
    /\ reqs[r].op = "registerUser" /\ reqs[r].pc = "create"
    /\ UNCHANGED <<users, companies, jobs, applications, now, nops>>
    /\ IF reqs[r].aux # Null
       THEN Goto(r, "incReferrer")
       ELSE Finish(r, "registered")

\* await User.findByIdAndUpdate(referredByUser, { $inc: totalReferrals })
RegisterIncReferrer(r) ==
    /\ reqs[r].op = "registerUser" /\ reqs[r].pc = "incReferrer"
    /\ users' = IncUserStat(users, reqs[r].aux, "totalReferrals", 1)
    /\ Finish(r, "registered")
    /\ UNCHANGED <<companies, jobs, applications, now, nops>>

----------------------------------------------------------------------------
(* A mongoose Application document loaded by findById, and its save() *)

\* Application.findById(id): the local copy and what save() will diff against
Load(apps, id) ==
    [id |-> id, cur |-> apps[id], origStatus |-> apps[id].status,
     pushed |-> <<>>, newInterviews |-> 0, rpMod |-> "none"]

\* application.status = st; application.statusHistory.push({...})
SetStatus(doc, st, by, model) ==
    [doc EXCEPT !.cur.status = st,
                !.cur.statusHistory = Append(@, HistoryEntry(st, by, model)),
                !.pushed = Append(@, HistoryEntry(st, by, model))]

\* this.isModified('status'): assigning the loaded value marks nothing
isModifiedStatus(doc) == doc.cur.status # doc.origStatus

\* applicationSchema.pre('save'), for a document that is not new
preSave(doc) ==
    LET d1 == IF isModifiedStatus(doc)
              THEN [doc EXCEPT
                      !.cur.statusHistory = Append(@, HistoryEntry(doc.cur.status, Null, Null)),
                      !.pushed = Append(@, HistoryEntry(doc.cur.status, Null, Null))]
              ELSE doc
    IN  IF isModifiedStatus(doc) /\ doc.cur.status = "hired" /\ doc.cur.isReferral
        THEN [d1 EXCEPT !.cur.referralPayment.isEligible = TRUE,
                        !.cur.referralPayment.status = "pending",
                        !.rpMod = IF @ = "none" THEN "fields" ELSE @]
        ELSE d1

\* variant: a withdrawn application is detached from its referrer
saveDetachingWithdrawn(apps, doc0) ==
    LET doc == preSave(doc0) IN
    [apps EXCEPT ![doc.id] =
        [@ EXCEPT !.status = IF isModifiedStatus(doc) THEN doc.cur.status ELSE @,
                  !.statusHistory = @ \o doc.pushed,
                  !.interviews = @ + doc.newInterviews,
                  !.isReferral = IF doc.cur.status = "withdrawn" THEN FALSE ELSE @,
                  !.referredBy = IF doc.cur.status = "withdrawn" THEN Null ELSE @,
                  !.referralPayment =
                       CASE doc.rpMod = "whole" -> doc.cur.referralPayment
                         [] doc.rpMod = "fields" ->
                              [@ EXCEPT !.isEligible = TRUE, !.status = "pending"]
                         [] OTHER -> @]]

\* application.save(): hooks, then $set of the modified paths and $push of the
\* new statusHistory entries onto the stored document (no version check)
save(apps, doc0) ==
    LET doc == preSave(doc0) IN
    [apps EXCEPT ![doc.id] =
        [@ EXCEPT !.status = IF isModifiedStatus(doc) THEN doc.cur.status ELSE @,
                  !.statusHistory = @ \o doc.pushed,
                  !.interviews = @ + doc.newInterviews,
                  !.referralPayment =
                       CASE doc.rpMod = "whole" -> doc.cur.referralPayment
                         [] doc.rpMod = "fields" ->
                              [@ EXCEPT !.isEligible = TRUE, !.status = "pending"]
                         [] OTHER -> @]]

----------------------------------------------------------------------------
(* processReferralPayment(application): the new document and User collection *)

\* variant: the credit reaches pendingEarnings only
creditReferrerPendingOnly(us, referrer, fee) ==
    IncUserStat(us, referrer, "pendingEarnings", fee)

\* User.findByIdAndUpdate(referredBy, { $inc: pendingEarnings, totalEarnings })
creditReferrer(us, referrer, fee) ==
    IncUserStat(IncUserStat(us, referrer, "pendingEarnings", fee),
                referrer, "totalEarnings", fee)

\* variant: the default fee is recorded and credited, not the job's fee
processReferralPaymentDefaultFee(doc, js, us) ==
    IF ~doc.cur.isReferral \/ doc.cur.referredBy = Null
    THEN [doc |-> doc, users |-> us]
    ELSE LET job == js[doc.cur.jobId] IN
         IF ~job.exists THEN [doc |-> doc, users |-> us]
         ELSE [doc |-> [doc EXCEPT !.cur.referralPayment =
                            [isEligible |-> TRUE, amount |-> DefaultReferralFee,
                             status |-> "pending"],
                          !.rpMod = "whole"],
               users |-> creditReferrer(us, doc.cur.referredBy, DefaultReferralFee)]

processReferralPayment(doc, js, us) ==
    IF ~doc.cur.isReferral \/ doc.cur.referredBy = Null
    THEN [doc |-> doc, users |-> us]
    ELSE LET job == js[doc.cur.jobId] IN
         IF ~job.exists THEN [doc |-> doc, users |-> us]
         ELSE [doc |-> [doc EXCEPT !.cur.referralPayment =
                            [isEligible |-> TRUE, amount |-> job.referralFee,
                             status |-> "pending"],
                          !.rpMod = "whole"],
               users |-> creditReferrer(us, doc.cur.referredBy, job.referralFee)]

----------------------------------------------------------------------------
(* updateApplicationStatus *)

\* ids of the requests: every stored application and one unknown id
AppIdInputs == 1..(Len(applications) + 1)

\* the status of a request body: one of the list, another word, or none
StatusInputs == validStatuses \cup {"withdrawn", Absent}

\* router.put('/:id/status', ...): the route's check of the body answers 400
\* before the handler runs; the handler repeats the check of the list
StartUpdate(r, c, id, status) ==
    /\ FreeSlot(r)
    /\ nops' = nops + 1
    /\ UNCHANGED <<users, companies, jobs, applications, now>>
    /\ LET req == [IdleReq EXCEPT !.op = "updateApplicationStatus", !.caller = c,
                                  !.target = id, !.arg = status]
       IN  IF status = Absent
           THEN /\ reqs' = [reqs EXCEPT ![r] = [req EXCEPT !.pc = "done",
                                                          !.result = "Missing status"]]
           ELSE IF status \notin validStatuses
           THEN /\ reqs' = [reqs EXCEPT ![r] = [req EXCEPT !.pc = "done",
                                                          !.result = "Invalid status"]]
           ELSE /\ reqs' = [reqs EXCEPT ![r] = [req EXCEPT !.pc = "find"]]

\* const application = await Application.findById(id); checks; local mutation
UpdateFind(r) ==
    /\ reqs[r].op = "updateApplicationStatus" /\ reqs[r].pc = "find"
    /\ UNCHANGED <<users, companies, jobs, applications, now, nops>>
    /\ LET id == reqs[r].target IN
       IF id \notin DOMAIN applications THEN Finish(r, "Application not found")
       ELSE IF applications[id].companyId # reqs[r].caller THEN Finish(r, "Access denied")
       ELSE LET d1 == SetStatus(Load(applications, id), reqs[r].arg,
                                reqs[r].caller, "Company")
            IN  /\ reqs' = [reqs EXCEPT
                      ![r].doc = d1,
                      ![r].pc = IF reqs[r].arg = "hired" /\ d1.cur.isReferral
                                THEN "paymentFindJob" ELSE "save"]

\* processReferralPayment: const job = await Job.findById(application.jobId)
UpdatePaymentFindJob(r) ==
    /\ reqs[r].op = "updateApplicationStatus" /\ reqs[r].pc = "paymentFindJob"
    /\ UNCHANGED <<users, companies, jobs, applications, now, nops>>
    /\ LET doc == reqs[r].doc
           after == processReferralPayment(doc, jobs, users).doc
       IN  reqs' = [reqs EXCEPT
                      ![r].doc = after,
                      ![r].aux = after.cur.referralPayment.amount,
                      ![r].pc = IF after.rpMod = "whole" THEN "paymentCredit"
                                ELSE "incHires"]

\* processReferralPayment: await User.findByIdAndUpdate(referredBy, $inc earnings)
UpdatePaymentCredit(r) ==
    /\ reqs[r].op = "updateApplicationStatus" /\ reqs[r].pc = "paymentCredit"
    /\ users' = creditReferrer(users, reqs[r].doc.cur.referredBy, reqs[r].aux)
    /\ Goto(r, "incHires")
    /\ UNCHANGED <<companies, jobs, applications, now, nops>>

\* await Company.findByIdAndUpdate(req.user._id, { $inc: totalHires })
UpdateIncHires(r) ==
    /\ reqs[r].op = "updateApplicationStatus" /\ reqs[r].pc = "incHires"
    /\ companies' = IncCompanyStat(companies, reqs[r].caller, "totalHires", 1)
    /\ Goto(r, IF reqs[r].doc.cur.referredBy # Null THEN "incSuccessful" ELSE "save")
    /\ UNCHANGED <<users, jobs, applications, now, nops>>

\* await User.findByIdAndUpdate(referredBy, { $inc: successfulReferrals })
UpdateIncSuccessful(r) ==
    /\ reqs[r].op = "updateApplicationStatus" /\ reqs[r].pc = "incSuccessful"
    /\ users' = IncUserStat(users, reqs[r].doc.cur.referredBy, "successfulReferrals", 1)
    /\ Goto(r, "save")
    /\ UNCHANGED <<companies, jobs, applications, now, nops>>

\* await application.save()
UpdateSave(r) ==
    /\ reqs[r].op = "updateApplicationStatus" /\ reqs[r].pc = "save"
    /\ applications' = save(applications, reqs[r].doc)
    /\ Goto(r, "populate")
    /\ UNCHANGED <<users, companies, jobs, now, nops>>

\* await application.populate([...]); res.json
UpdatePopulate(r) ==
    /\ reqs[r].op = "updateApplicationStatus" /\ reqs[r].pc = "populate"
    /\ Finish(r, "ok")
    /\ UNCHANGED <<users, companies, jobs, applications, now, nops>>

\* await application.populate([...]) rejects: the catch block answers 500
\* after the Application has been saved
UpdatePopulateFails(r) ==
    /\ reqs[r].op = "updateApplicationStatus" /\ reqs[r].pc = "populate"
    /\ Finish(r, "Server error")
    /\ UNCHANGED <<users, companies, jobs, applications, now, nops>>

\* await application.save() rejects: the catch block answers 500, nothing is
\* written to the Application and nothing done before is undone
UpdateSaveFails(r) ==
    /\ reqs[r].op = "updateApplicationStatus" /\ reqs[r].pc = "save"
    /\ Finish(r, "Server error")
    /\ UNCHANGED <<users, companies, jobs, applications, now, nops>>

\* the $inc of totalHires or of successfulReferrals rejects: the error leaves
\* the try block before application.save() and the catch block answers 500
UpdateIncFails(r) ==
    /\ reqs[r].op = "updateApplicationStatus"
    /\ reqs[r].pc \in {"incHires", "incSuccessful"}
    /\ Finish(r, "Server error")
    /\ UNCHANGED <<users, companies, jobs, applications, now, nops>>

\* router.put('/:id/status', auth, requireCompany, ..., updateApplicationStatus)
PutApplicationStatus(r, a, id, status) ==
    IF requireCompany(a) THEN StartUpdate(r, a, id, status)
    ELSE Denied(r, "updateApplicationStatus", a, id, status)

----------------------------------------------------------------------------
(* withdrawApplication *)

\* ['pending', 'reviewing', 'shortlisted'].includes(application.status)
WithdrawableStatuses == {"pending", "reviewing", "shortlisted"}

StartWithdraw(r, u, id) ==
    /\ FreeSlot(r)
    /\ nops' = nops + 1
    /\ reqs' = [reqs EXCEPT ![r] = [IdleReq EXCEPT !.op = "withdrawApplication",
                                        !.pc = "find", !.caller = u, !.target = id]]
    /\ UNCHANGED <<users, companies, jobs, applications, now>>

\* const application = await Application.findById(id); checks; local mutation
WithdrawFind(r) ==
    /\ reqs[r].op = "withdrawApplication" /\ reqs[r].pc = "find"
    /\ UNCHANGED <<users, companies, jobs, applications, now, nops>>
    /\ LET id == reqs[r].target IN
       IF id \notin DOMAIN applications THEN Finish(r, "Application not found")
       ELSE IF applications[id].applicantId # reqs[r].caller
       THEN Finish(r, "Access denied")
       ELSE IF applications[id].status \notin WithdrawableStatuses
       THEN Finish(r, "Cannot withdraw application")
       ELSE /\ reqs' = [reqs EXCEPT
                  ![r].doc = SetStatus(Load(applications, id), "withdrawn",
                                       reqs[r].caller, "User"),
                  ![r].pc = "save"]

\* await application.save(); res.json
WithdrawSave(r) ==
    /\ reqs[r].op = "withdrawApplication" /\ reqs[r].pc = "save"
    /\ applications' = save(applications, reqs[r].doc)
    /\ Finish(r, "ok")
    /\ UNCHANGED <<users, companies, jobs, now, nops>>

----------------------------------------------------------------------------
(* scheduleInterview: the route's validation, then the handler *)

\* const validTypes = ['phone', 'video', 'in-person', 'technical', 'final']
validTypes == {"phone", "video", "in-person", "technical", "final"}

\* the type and scheduledAt of the request body: each may be missing, the
\* type may be a word outside the list, the time may be past or ahead
InterviewInputs ==
    [type : {Absent, "video", "lunch"}, scheduledAt : {AbsentDate, 0, MaxTime + 1}]

\* application.interviews.push({...})
PushInterview(doc) ==
    [doc EXCEPT !.newInterviews = @ + 1, !.cur.interviews = @ + 1]

\* statuses in which scheduling leaves the status alone
KeepsStatusOnInterview == {"interviewing", "offered", "hired"}

\* the route's check of the body, before the handler runs
StartInterview(r, c, id, data) ==
    /\ FreeSlot(r)
    /\ nops' = nops + 1
    /\ UNCHANGED <<users, companies, jobs, applications, now>>
    /\ LET req == [IdleReq EXCEPT !.op = "scheduleInterview", !.caller = c,
                                  !.target = id, !.arg = data]
       IN  IF data.type = Absent \/ data.scheduledAt = AbsentDate
           THEN /\ reqs' = [reqs EXCEPT ![r] = [req EXCEPT !.pc = "done",
                                                  !.result = "Missing required fields"]]
           ELSE IF data.type \notin validTypes
           THEN /\ reqs' = [reqs EXCEPT ![r] = [req EXCEPT !.pc = "done",
                                                  !.result = "Invalid interview type"]]
           ELSE IF data.scheduledAt <= now
           THEN /\ reqs' = [reqs EXCEPT ![r] = [req EXCEPT !.pc = "done",
                                                  !.result = "Invalid scheduled time"]]
           ELSE /\ reqs' = [reqs EXCEPT ![r] = [req EXCEPT !.pc = "find"]]

\* const application = await Application.findById(id); checks; local mutation
InterviewFind(r) ==
    /\ reqs[r].op = "scheduleInterview" /\ reqs[r].pc = "find"
    /\ UNCHANGED <<users, companies, jobs, applications, now, nops>>
    /\ LET id == reqs[r].target IN
       IF id \notin DOMAIN applications THEN Finish(r, "Application not found")
       ELSE IF applications[id].companyId # reqs[r].caller THEN Finish(r, "Access denied")
       ELSE LET d1 == PushInterview(Load(applications, id))
                d2 == IF d1.cur.status \notin KeepsStatusOnInterview
                      THEN SetStatus(d1, "interviewing", reqs[r].caller, "Company")
                      ELSE d1
            IN  /\ reqs' = [reqs EXCEPT ![r].doc = d2, ![r].pc = "save"]

\* await application.save()
InterviewSave(r) ==
    /\ reqs[r].op = "scheduleInterview" /\ reqs[r].pc = "save"
    /\ applications' = save(applications, reqs[r].doc)
    /\ Goto(r, "populate")
    /\ UNCHANGED <<users, companies, jobs, now, nops>>

\* await application.populate([...]); res.status(201).json
InterviewPopulate(r) ==
    /\ reqs[r].op = "scheduleInterview" /\ reqs[r].pc = "populate"
    /\ Finish(r, "ok")
    /\ UNCHANGED <<users, companies, jobs, applications, now, nops>>

----------------------------------------------------------------------------
(* userSchema.methods.updateReferralStats(type, amount): the method that
   processes a payment; no handler calls it *)

ReferralStatTypes == {"add_referral", "successful_referral", "payment_processed"}

updateReferralStats(stats, type, amount) ==
    CASE type = "add_referral" ->
            [stats EXCEPT !.totalReferrals = @ + 1]
      [] type = "successful_referral" ->
            [stats EXCEPT !.successfulReferrals = @ + 1,
                          !.pendingEarnings = @ + amount,
                          !.totalEarnings = @ + amount]
      [] type = "payment_processed" ->
            [stats EXCEPT !.pendingEarnings = @ - amount,
                          !.paidEarnings = @ + amount]
      [] OTHER -> stats

----------------------------------------------------------------------------
(* createJob *)

\* referralFee of the request body; 0 stands for every falsy value (absent, 0)
FeeInputs == {0}
DeadlineInputs == {NoDate} \cup (1..(MaxTime - 1))

\* a fresh ObjectId, named by an identifier that no stored Job, no
\* Application and no request in flight refers to
FreshJobIds ==
    {j \in JobIds :
        /\ ~jobs[j].exists
        /\ \A i \in DOMAIN applications : applications[i].jobId # j
        /\ \A r \in ReqIds : reqs[r].pc \in {"idle", "done"} \/ reqs[r].target # j}

\* a createJob request arrives; every request in flight will need a fresh id
StartCreateJob(r, c, status, referralFee, deadline) ==
    /\ FreeSlot(r)
    /\ Cardinality({x \in ReqIds : reqs[x].op = "createJob" /\ reqs[x].pc = "create"})
          < Cardinality(FreshJobIds)
    /\ nops' = nops + 1
    /\ reqs' = [reqs EXCEPT ![r] = [IdleReq EXCEPT !.op = "createJob", !.pc = "create",
                                        !.caller = c, !.arg = status,
                                        !.aux = <<referralFee, deadline>>]]
    /\ UNCHANGED <<users, companies, jobs, applications, now>>

\* const job = await Job.create({...}): validation, then the insert
CreateJobCreate(r) ==
    /\ reqs[r].op = "createJob" /\ reqs[r].pc = "create"
    /\ FreshJobIds # {}
    /\ UNCHANGED <<users, companies, applications, now, nops>>
    /\ LET j == CHOOSE x \in FreshJobIds : \A y \in FreshJobIds : JobOrder[x] <= JobOrder[y]
           st == IF reqs[r].arg = Absent THEN "active" ELSE reqs[r].arg
           fee == IF reqs[r].aux[1] = 0 THEN DefaultReferralFee ELSE reqs[r].aux[1]
       IN  IF ~deadlineIsValid(reqs[r].aux[2], now)
           THEN /\ Finish(r, "Validation Error")
                /\ UNCHANGED jobs
           ELSE /\ jobs' = [jobs EXCEPT ![j] = NewJob(reqs[r].caller, st, fee, reqs[r].aux[2])]
                /\ reqs' = [reqs EXCEPT ![r].target = j, ![r].pc = "inc"]

\* await Company.findByIdAndUpdate(req.user._id, { $inc: ... })
CreateJobInc(r) ==
    /\ reqs[r].op = "createJob" /\ reqs[r].pc = "inc"
    /\ companies' =
         LET cs1 == IncCompanyStat(companies, reqs[r].caller, "totalJobsPosted", 1) IN
         IF reqs[r].arg = "active" THEN IncCompanyStat(cs1, reqs[r].caller, "activeJobs", 1)
         ELSE cs1
    /\ Goto(r, "populate")
    /\ UNCHANGED <<users, jobs, applications, now, nops>>

\* await job.populate('companyId', ...); res.status(201).json
CreateJobPopulate(r) ==
    /\ reqs[r].op = "createJob" /\ reqs[r].pc = "populate"
    /\ Finish(r, "created")
    /\ UNCHANGED <<users, companies, jobs, applications, now, nops>>

----------------------------------------------------------------------------
(* updateJob: Job.findByIdAndUpdate(id, { ...req.body }) *)

NoBody == [status |-> Absent, referralFee |-> AbsentFee, companyId |-> Absent,
           applications |-> AbsentCount, referralApplications |-> AbsentCount,
           closedDate |-> AbsentDate,
           applicationDeadline |-> AbsentDate]

\* deadlines of a request body: one that has always passed, one that lies ahead
BodyDeadlines == {0, MaxTime}

\* req.body: any one of the keys status, referralFee, companyId,
\* 'stats.applications', 'stats.referralApplications', closedDate,
\* applicationSettings.applicationDeadline
UpdateBodies ==
    {[NoBody EXCEPT !.status = st] : st \in JobStatuses}
    \cup {[NoBody EXCEPT !.referralFee = f] : f \in Fees}
    \cup {[NoBody EXCEPT !.companyId = c] : c \in Companies}
    \cup {[NoBody EXCEPT !.applications = 0]}
    \cup {[NoBody EXCEPT !.referralApplications = 0]}
    \cup {[NoBody EXCEPT !.closedDate = 0]}
    \cup {[NoBody EXCEPT !.applicationDeadline = d] : d \in BodyDeadlines}
    \cup {NoBody}

\* runValidators: true runs the validators of the paths the body sets
BodyIsValid(body, t) ==
    body.applicationDeadline = AbsentDate \/ deadlineIsValid(body.applicationDeadline, t)

\* the $set of { ...req.body } on the stored document
ApplyBody(job, body) ==
    [job EXCEPT !.status = IF body.status = Absent THEN @ ELSE body.status,
                !.referralFee = IF body.referralFee = AbsentFee THEN @ ELSE body.referralFee,
                !.companyId = IF body.companyId = Absent THEN @ ELSE body.companyId,
                !.stats.applications =
                     IF body.applications = AbsentCount THEN @ ELSE body.applications,
                !.stats.referralApplications =
                     IF body.referralApplications = AbsentCount THEN @
                     ELSE body.referralApplications,
                !.closedDate = IF body.closedDate = AbsentDate THEN @ ELSE body.closedDate,
                !.applicationDeadline =
                     IF body.applicationDeadline = AbsentDate THEN @
                     ELSE body.applicationDeadline]

StartUpdateJob(r, c, j, body) ==
    /\ FreeSlot(r)
    /\ nops' = nops + 1
    /\ reqs' = [reqs EXCEPT ![r] = [IdleReq EXCEPT !.op = "updateJob", !.pc = "find",
                                        !.caller = c, !.target = j, !.arg = body]]
    /\ UNCHANGED <<users, companies, jobs, applications, now>>

\* const job = await Job.findById(id); existence and ownership
UpdateJobFind(r) ==
    /\ reqs[r].op = "updateJob" /\ reqs[r].pc = "find"
    /\ UNCHANGED <<users, companies, jobs, applications, now, nops>>
    /\ LET job == jobs[reqs[r].target] IN
       IF ~job.exists THEN Finish(r, "Job not found")
       ELSE IF job.companyId # reqs[r].caller THEN Finish(r, "Access denied")
       ELSE Goto(r, "update")

\* await Job.findByIdAndUpdate(id, { ...req.body }, { runValidators: true }):
\* resolves null, and the handler still answers 200, when the job is gone
UpdateJobFindByIdAndUpdate(r) ==
    /\ reqs[r].op = "updateJob" /\ reqs[r].pc = "update"
    /\ UNCHANGED <<users, companies, applications, now, nops>>
    /\ IF ~BodyIsValid(reqs[r].arg, now)
       THEN /\ Finish(r, "Validation Error")
            /\ UNCHANGED jobs
       ELSE /\ jobs' = IF jobs[reqs[r].target].exists
                       THEN [jobs EXCEPT ![reqs[r].target] = ApplyBody(@, reqs[r].arg)]
                       ELSE jobs
            /\ Finish(r, "ok")

----------------------------------------------------------------------------
(* updateJobStatus *)

JobStatusInputs == JobStatuses \cup {Absent}

\* router.put('/:id/status', ...): the route's check of the body answers 400
\* before the handler runs; the handler repeats the check of the list
StartJobUpdate(r, c, j, status) ==
    /\ FreeSlot(r)
    /\ nops' = nops + 1
    /\ UNCHANGED <<users, companies, jobs, applications, now>>
    /\ LET req == [IdleReq EXCEPT !.op = "updateJobStatus", !.caller = c,
                                  !.target = j, !.arg = status]
       IN  IF status = Absent
           THEN /\ reqs' = [reqs EXCEPT ![r] = [req EXCEPT !.pc = "done",
                                                          !.result = "Missing status"]]
           ELSE IF status \notin JobStatuses
           THEN /\ reqs' = [reqs EXCEPT ![r] = [req EXCEPT !.pc = "done",
                                                          !.result = "Invalid status"]]
           ELSE /\ reqs' = [reqs EXCEPT ![r] = [req EXCEPT !.pc = "find"]]

\* const job = await Job.findById(id); checks; const oldStatus = job.status;
\* job.status = status; job.closedDate = new Date()
JobUpdateFind(r) ==
    /\ reqs[r].op = "updateJobStatus" /\ reqs[r].pc = "find"
    /\ UNCHANGED <<users, companies, jobs, applications, now, nops>>
    /\ LET job == jobs[reqs[r].target] IN
       IF ~job.exists THEN Finish(r, "Job not found")
       ELSE IF job.companyId # reqs[r].caller THEN Finish(r, "Access denied")
       ELSE /\ reqs' = [reqs EXCEPT ![r].doc = job, ![r].aux = job.status,
                                    ![r].at = now, ![r].pc = "validate"]

\* job.save(), first part: the validators run on the loaded document; a
\* failure is thrown into the catch block, which answers 500
JobUpdateValidate(r) ==
    /\ reqs[r].op = "updateJobStatus" /\ reqs[r].pc = "validate"
    /\ UNCHANGED <<users, companies, jobs, applications, now, nops>>
    /\ IF ~deadlineIsValid(reqs[r].doc.applicationDeadline, now)
       THEN Finish(r, "Server error")
       ELSE Goto(r, "save")

\* job.save(), second part: $set of the modified paths reaches the store, with
\* no condition on the stored status; it rejects when the document is gone
JobUpdateSave(r) ==
    /\ reqs[r].op = "updateJobStatus" /\ reqs[r].pc = "save"
    /\ UNCHANGED <<users, companies, applications, now, nops>>
    /\ LET j == reqs[r].target
           status == reqs[r].arg
           oldStatus == reqs[r].aux
       IN  IF ~jobs[j].exists
           THEN /\ Finish(r, "Server error")
                /\ UNCHANGED jobs
           ELSE /\ jobs' = [jobs EXCEPT
                              ![j].status = IF status # oldStatus THEN status ELSE @,
                              ![j].closedDate = IF status \in {"closed", "filled"}
                                                THEN reqs[r].at ELSE @]
                /\ IF (status = "active") # (oldStatus = "active")
                   THEN Goto(r, "inc")
                   ELSE Finish(r, "ok")

\* await Company.findByIdAndUpdate(req.user._id, { $inc: activeJobs +1 / -1 })
JobUpdateInc(r) ==
    /\ reqs[r].op = "updateJobStatus" /\ reqs[r].pc = "inc"
    /\ companies' = IncCompanyStat(companies, reqs[r].caller, "activeJobs",
                                   IF reqs[r].arg = "active" THEN 1 ELSE -1)
    /\ Finish(r, "ok")
    /\ UNCHANGED <<users, jobs, applications, now, nops>>

----------------------------------------------------------------------------
(* deleteJob *)

StartDelete(r, c, j) ==
    /\ FreeSlot(r)
    /\ nops' = nops + 1
    /\ reqs' = [reqs EXCEPT ![r] = [IdleReq EXCEPT !.op = "deleteJob", !.pc = "find",
                                        !.caller = c, !.target = j]]
    /\ UNCHANGED <<users, companies, jobs, applications, now>>

\* const job = await Job.findById(id); ownership; job.stats.applications > 0
DeleteFind(r) ==
    /\ reqs[r].op = "deleteJob" /\ reqs[r].pc = "find"
    /\ UNCHANGED <<users, companies, jobs, applications, now, nops>>
    /\ LET job == jobs[reqs[r].target] IN
       IF ~job.exists THEN Finish(r, "Job not found")
       ELSE IF job.companyId # reqs[r].caller THEN Finish(r, "Access denied")
       ELSE IF job.stats.applications > 0 THEN Finish(r, "Cannot delete job")
       ELSE /\ reqs' = [reqs EXCEPT ![r].doc = job, ![r].pc = "remove"]

\* await Job.findByIdAndDelete(id)
DeleteRemove(r) ==
    /\ reqs[r].op = "deleteJob" /\ reqs[r].pc = "remove"
    /\ jobs' = [jobs EXCEPT ![reqs[r].target] = NoJob]
    /\ Goto(r, "inc")
    /\ UNCHANGED <<users, companies, applications, now, nops>>

\* await Company.findByIdAndUpdate(req.user._id, { $inc: ... }); res.json
DeleteInc(r) ==
    /\ reqs[r].op = "deleteJob" /\ reqs[r].pc = "inc"
    /\ companies' =
         LET cs1 == IncCompanyStat(companies, reqs[r].caller, "totalJobsPosted", -1) IN
         IF reqs[r].doc.status = "active"
         THEN IncCompanyStat(cs1, reqs[r].caller, "activeJobs", -1)
         ELSE cs1
    /\ Finish(r, "ok")
    /\ UNCHANGED <<users, jobs, applications, now, nops>>

----------------------------------------------------------------------------
(* cleanupExpiredJobs *)

\* variant: $lte in place of $lt
expiredJobsInclusive(js, t) ==
    {j \in JobIds : /\ js[j].exists
                    /\ js[j].status = "active"
                    /\ js[j].applicationDeadline # NoDate
                    /\ js[j].applicationDeadline <= t}

\* Job.find({ status: 'active', applicationDeadline: { $lt: now } })
expiredJobs(js, t) ==
    {j \in JobIds : /\ js[j].exists
                    /\ js[j].status = "active"
                    /\ js[j].applicationDeadline # NoDate
                    /\ js[j].applicationDeadline < t}

\* the documents of a Job.find result that the sweep later iterates over
foundJobs(js, ids) == {[id |-> j, companyId |-> js[j].companyId] : j \in ids}

\* cleanupExpiredJobs is entered: const now = new Date()
StartSweep(r) ==
    /\ FreeSlot(r)
    /\ nops' = nops + 1
    /\ reqs' = [reqs EXCEPT ![r] = [IdleReq EXCEPT !.op = "cleanupExpiredJobs",
                                        !.pc = "find", !.at = now]]
    /\ UNCHANGED <<users, companies, jobs, applications, now>>

\* const expiredJobs = await Job.find({ status: 'active', deadline < now })
SweepFind(r) ==
    /\ reqs[r].op = "cleanupExpiredJobs" /\ reqs[r].pc = "find"
    /\ UNCHANGED <<users, companies, jobs, applications, now, nops>>
    /\ LET expired == expiredJobs(jobs, reqs[r].at) IN
       IF expired = {} THEN Finish(r, "swept")
       ELSE /\ reqs' = [reqs EXCEPT ![r].aux = foundJobs(jobs, expired),
                                    ![r].pc = "updateMany"]

\* await Job.updateMany({ same filter }, { $set: { status: 'closed', closedDate } })
SweepUpdateMany(r) ==
    /\ reqs[r].op = "cleanupExpiredJobs" /\ reqs[r].pc = "updateMany"
    /\ jobs' = [j \in JobIds |->
                  IF j \in expiredJobs(jobs, reqs[r].at)
                  THEN [jobs[j] EXCEPT !.status = "closed", !.closedDate = reqs[r].at]
                  ELSE jobs[j]]
    /\ Goto(r, "decrement")
    /\ UNCHANGED <<users, companies, applications, now, nops>>

\* for (const job of expiredJobs) await Company.findByIdAndUpdate(.. $inc -1)
SweepDecrement(r) ==
    /\ reqs[r].op = "cleanupExpiredJobs" /\ reqs[r].pc = "decrement"
    /\ UNCHANGED <<users, jobs, applications, now, nops>>
    /\ LET todo == reqs[r].aux
           job == CHOOSE x \in todo : \A y \in todo : JobOrder[x.id] <= JobOrder[y.id]
       IN  /\ companies' = IncCompanyStat(companies, job.companyId, "activeJobs", -1)
           /\ reqs' = IF todo = {job}
                      THEN [reqs EXCEPT ![r].aux = {}, ![r].pc = "done",
                                        ![r].result = "swept"]
                      ELSE [reqs EXCEPT ![r].aux = todo \ {job}]

\* the periodic scheduler calls cleanupExpiredJobs; the function is not
\* exported and nothing in the sources calls it
ScheduledSweep(r) == StartSweep(r)

\* time passes
Tick ==
    /\ now < MaxTime
    /\ \E t \in (now + 1)..MaxTime : now' = t
    /\ UNCHANGED <<users, companies, jobs, applications, reqs, nops>>

----------------------------------------------------------------------------
(* Initial states *)

InitUsers == [u \in Users |-> [referralCode |-> StoredCode[u],
                               referralStats |-> ZeroReferralStats]]

NoRequests == [r \in ReqIds |-> IdleReq]

\* no job has been posted yet
InitEmpty ==
    /\ users = InitUsers
    /\ jobs = [j \in JobIds |-> NoJob]
    /\ companies = [c \in Companies |-> [stats |-> ZeroCompanyStats]]
    /\ applications = <<>>
    /\ now = 0
    /\ nops = 0
    /\ reqs = NoRequests

\* the store after each company posted one active job; no application yet
InitPosted ==
    /\ users = InitUsers
    /\ jobs = [j \in JobIds |->
                 IF j = "j1" THEN NewJob("c1", "active", DefaultReferralFee, NoDate)
                 ELSE NewJob("c2", "active", OtherReferralFee, NoDate)]
    /\ companies = [c \in Companies |->
                 [stats |-> [ZeroCompanyStats EXCEPT !.totalJobsPosted = 1,
                                                     !.activeJobs = 1]]]
    /\ applications = <<>>
    /\ now = 0
    /\ nops = 0
    /\ reqs = NoRequests

\* the store after one accepted submission to a posted job
InitApplied ==
    \E u \in Users, j \in JobIds, code \in InputCodes :
       LET posted == [x \in JobIds |->
                        IF x = "j1" THEN NewJob("c1", "active", DefaultReferralFee, NoDate)
                        ELSE NewJob("c2", "active", OtherReferralFee, NoDate)]
           ref == ResolveReferral(InitUsers, u, code)
       IN  /\ users = submitIncReferrer(InitUsers, ref)
           /\ jobs = submitIncJob(posted, j, ref)
           /\ companies = submitIncCompany(
                  [c \in Companies |->
                      [stats |-> [ZeroCompanyStats EXCEPT !.totalJobsPosted = 1,
                                                          !.activeJobs = 1]]],
                  posted[j].companyId)
           /\ applications = <<NewApplication(j, u, posted[j].companyId, ref)>>
           /\ now = 0
           /\ nops = 0
           /\ reqs = NoRequests

\* the store after two active jobs were posted, j1 with a deadline ahead
InitDeadline ==
    \E c2 \in Companies, d2 \in {NoDate, 1} :
       LET posted == [x \in JobIds |->
                        IF x = "j1" THEN NewJob("c1", "active", DefaultReferralFee, 1)
                        ELSE NewJob(c2, "active", DefaultReferralFee, d2)]
           n(c) == Cardinality({x \in JobIds : posted[x].companyId = c})
       IN  /\ users = InitUsers
           /\ jobs = posted
           /\ companies = [c \in Companies |->
                             [stats |-> [ZeroCompanyStats EXCEPT !.totalJobsPosted = n(c),
                                                                 !.activeJobs = n(c)]]]
           /\ applications = <<>>
           /\ now = 0
           /\ nops = 0
           /\ reqs = NoRequests

\* the store after c1 posted j1 as active; j2 is yet to be created
InitOnePosted ==
    /\ users = InitUsers
    /\ jobs = [j \in JobIds |->
                 IF j = "j1" THEN NewJob("c1", "active", DefaultReferralFee, NoDate)
                 ELSE NoJob]
    /\ companies = [c \in Companies |->
                      [stats |-> IF c = "c1"
                                 THEN [ZeroCompanyStats EXCEPT !.totalJobsPosted = 1,
                                                               !.activeJobs = 1]
                                 ELSE ZeroCompanyStats]]
    /\ applications = <<>>
    /\ now = 0
    /\ nops = 0
    /\ reqs = NoRequests

\* the store after submission (u, j, code) passed its job lookup, the owner's
\* deleteJob of j then ran to its end, and the submission completed
OrphanedStore(u, j, code) ==
    LET posted == [x \in JobIds |->
                     IF x = "j1" THEN NewJob("c1", "active", DefaultReferralFee, NoDate)
                     ELSE NewJob("c2", "active", OtherReferralFee, NoDate)]
        c == posted[j].companyId
        ref == ResolveReferral(InitUsers, u, code)
    IN  /\ users = submitIncReferrer(InitUsers, ref)
        /\ jobs = [posted EXCEPT ![j] = NoJob]
        /\ companies = [x \in Companies |->
              [stats |-> IF x = c
                         THEN [ZeroCompanyStats EXCEPT !.totalApplications = 1]
                         ELSE [ZeroCompanyStats EXCEPT !.totalJobsPosted = 1,
                                                       !.activeJobs = 1]]]
        /\ applications = <<NewApplication(j, u, c, ref)>>

InitOrphaned ==
    /\ \E u \in Users, j \in JobIds, code \in InputCodes : OrphanedStore(u, j, code)
    /\ now = 0
    /\ nops = 0
    /\ reqs = NoRequests

----------------------------------------------------------------------------
(* One request at a time: a request arrives when no other is in flight, and
   the clock advances between requests *)

(* Job board: companies post, edit, close and delete jobs *)

NextJobs ==
    \/ \E r \in ReqIds, c \in Companies, st \in JobStatusInputs, f \in FeeInputs,
          d \in DeadlineInputs :
          nops < MaxJobOps /\ Quiescent /\ StartCreateJob(r, c, st, f, d)
    \/ \E r \in ReqIds, c \in Companies, j \in JobIds, st \in JobStatusInputs :
          nops < MaxJobOps /\ Quiescent /\ StartJobUpdate(r, c, j, st)
    \/ \E r \in ReqIds, c \in Companies, j \in JobIds, b \in UpdateBodies :
          nops < MaxJobOps /\ Quiescent /\ StartUpdateJob(r, c, j, b)
    \/ \E r \in ReqIds, c \in Companies, j \in JobIds :
          nops < MaxJobOps /\ Quiescent /\ StartDelete(r, c, j)
    \/ \E r \in ReqIds : CreateJobCreate(r)
    \/ \E r \in ReqIds : CreateJobInc(r)
    \/ \E r \in ReqIds : CreateJobPopulate(r)
    \/ \E r \in ReqIds : JobUpdateFind(r)
    \/ \E r \in ReqIds : JobUpdateValidate(r)
    \/ \E r \in ReqIds : JobUpdateSave(r)
    \/ \E r \in ReqIds : JobUpdateInc(r)
    \/ \E r \in ReqIds : UpdateJobFind(r)
    \/ \E r \in ReqIds : UpdateJobFindByIdAndUpdate(r)
    \/ \E r \in ReqIds : DeleteFind(r)
    \/ \E r \in ReqIds : DeleteRemove(r)
    \/ \E r \in ReqIds : DeleteInc(r)
    \/ Quiescent /\ Tick

SpecJobs == InitEmpty /\ [][NextJobs]_vars

(* cleanupExpiredJobs, called by the periodic scheduler between status
   changes of posted jobs whose deadlines pass *)

NextSweep ==
    \/ \E r \in ReqIds : nops < MaxSweepOps /\ Quiescent /\ ScheduledSweep(r)
    \/ \E r \in ReqIds, c \in Companies, j \in JobIds, st \in JobStatuses :
          nops < MaxSweepOps /\ Quiescent /\ StartJobUpdate(r, c, j, st)
    \/ \E r \in ReqIds : SweepFind(r)
    \/ \E r \in ReqIds : SweepUpdateMany(r)
    \/ \E r \in ReqIds : SweepDecrement(r)
    \/ \E r \in ReqIds : JobUpdateFind(r)
    \/ \E r \in ReqIds : JobUpdateValidate(r)
    \/ \E r \in ReqIds : JobUpdateSave(r)
    \/ \E r \in ReqIds : JobUpdateInc(r)
    \/ Quiescent /\ Tick

SpecSweep == InitDeadline /\ [][NextSweep]_vars

(* Job board with applicants: jobs are posted, time passes and job seekers
   apply *)

NextBoard ==
    \/ \E r \in ReqIds, c \in Companies, st \in JobStatusInputs, f \in FeeInputs,
          d \in DeadlineInputs :
          nops < MaxBoardOps /\ Quiescent /\ StartCreateJob(r, c, st, f, d)
    \/ \E r \in ReqIds, u \in Users, j \in JobIds, code \in PlainCodes :
          nops < MaxBoardOps /\ Quiescent /\ StartSubmit(r, u, j, code)
    \/ \E r \in ReqIds : CreateJobCreate(r)
    \/ \E r \in ReqIds : CreateJobInc(r)
    \/ \E r \in ReqIds : CreateJobPopulate(r)
    \/ \E r \in ReqIds : SubmitFindJob(r)
    \/ \E r \in ReqIds : SubmitFindExisting(r)
    \/ \E r \in ReqIds : SubmitFindReferrer(r)
    \/ \E r \in ReqIds : SubmitCreate(r)
    \/ \E r \in ReqIds : SubmitIncJob(r)
    \/ \E r \in ReqIds : SubmitIncReferrer(r)
    \/ \E r \in ReqIds : SubmitIncCompany(r)
    \/ \E r \in ReqIds : SubmitPopulate(r)
    \/ Quiescent /\ Tick

SpecBoard == InitEmpty /\ [][NextBoard]_vars

(* Companies edit posted jobs that job seekers apply to *)

NextEdit ==
    \/ \E r \in ReqIds, u \in Users, j \in JobIds, code \in PlainCodes :
          nops < MaxEditOps /\ Quiescent /\ StartSubmit(r, u, j, code)
    \/ \E r \in ReqIds, c \in Companies, j \in JobIds, b \in UpdateBodies :
          nops < MaxEditOps /\ Quiescent /\ StartUpdateJob(r, c, j, b)
    \/ \E r \in ReqIds, c \in Companies, id \in AppIdInputs, st \in StatusInputs :
          nops < MaxEditOps /\ Quiescent /\ StartUpdate(r, c, id, st)
    \/ \E r \in ReqIds : SubmitFindJob(r)
    \/ \E r \in ReqIds : SubmitFindExisting(r)
    \/ \E r \in ReqIds : SubmitFindReferrer(r)
    \/ \E r \in ReqIds : SubmitCreate(r)
    \/ \E r \in ReqIds : SubmitIncJob(r)
    \/ \E r \in ReqIds : SubmitIncReferrer(r)
    \/ \E r \in ReqIds : SubmitIncCompany(r)
    \/ \E r \in ReqIds : SubmitPopulate(r)
    \/ \E r \in ReqIds : UpdateJobFind(r)
    \/ \E r \in ReqIds : UpdateJobFindByIdAndUpdate(r)
    \/ \E r \in ReqIds : UpdateFind(r)
    \/ \E r \in ReqIds : UpdatePaymentFindJob(r)
    \/ \E r \in ReqIds : UpdatePaymentCredit(r)
    \/ \E r \in ReqIds : UpdateIncHires(r)
    \/ \E r \in ReqIds : UpdateIncSuccessful(r)
    \/ \E r \in ReqIds : UpdateSave(r)
    \/ \E r \in ReqIds : UpdatePopulate(r)

SpecEdit == InitPosted /\ [][NextEdit]_vars

(* Application lifecycle: submissions, status updates and withdrawals *)

NextLife ==
    \/ \E r \in ReqIds, u \in Users, j \in JobIds, code \in InputCodes :
          nops < MaxOps /\ Quiescent /\ StartSubmit(r, u, j, code)
    \/ \E r \in ReqIds, c \in Companies, id \in AppIdInputs, st \in StatusInputs :
          nops < MaxOps /\ Quiescent /\ StartUpdate(r, c, id, st)
    \/ \E r \in ReqIds, u \in Users, id \in AppIdInputs :
          nops < MaxOps /\ Quiescent /\ StartWithdraw(r, u, id)
    \/ \E r \in ReqIds : SubmitFindJob(r)
    \/ \E r \in ReqIds : SubmitFindExisting(r)
    \/ \E r \in ReqIds : SubmitFindReferrer(r)
    \/ \E r \in ReqIds : SubmitCreate(r)
    \/ \E r \in ReqIds : SubmitIncJob(r)
    \/ \E r \in ReqIds : SubmitIncReferrer(r)
    \/ \E r \in ReqIds : SubmitIncCompany(r)
    \/ \E r \in ReqIds : SubmitPopulate(r)
    \/ \E r \in ReqIds : UpdateFind(r)
    \/ \E r \in ReqIds : UpdatePaymentFindJob(r)
    \/ \E r \in ReqIds : UpdatePaymentCredit(r)
    \/ \E r \in ReqIds : UpdateIncHires(r)
    \/ \E r \in ReqIds : UpdateIncSuccessful(r)
    \/ \E r \in ReqIds : UpdateSave(r)
    \/ \E r \in ReqIds : UpdatePopulate(r)
    \/ \E r \in ReqIds : WithdrawFind(r)
    \/ \E r \in ReqIds : WithdrawSave(r)

SpecLife == InitPosted /\ [][NextLife]_vars

(* A company moves a submitted Application towards a hire *)

\* the statuses of the way to a hire
HireStatusInputs == {"reviewing", "shortlisted", "hired"}

NextHire ==
    \/ \E r \in ReqIds, c \in Companies, id \in DOMAIN applications,
          st \in HireStatusInputs :
          nops < MaxHireOps /\ Quiescent /\ StartUpdate(r, c, id, st)
    \/ \E r \in ReqIds : UpdateFind(r)
    \/ \E r \in ReqIds : UpdatePaymentFindJob(r)
    \/ \E r \in ReqIds : UpdatePaymentCredit(r)
    \/ \E r \in ReqIds : UpdateIncHires(r)
    \/ \E r \in ReqIds : UpdateIncSuccessful(r)
    \/ \E r \in ReqIds : UpdateSave(r)
    \/ \E r \in ReqIds : UpdatePopulate(r)

SpecHire == InitApplied /\ [][NextHire]_vars

(* Application lifecycle with interviews *)

NextInterview ==
    \/ \E r \in ReqIds, c \in Companies, id \in AppIdInputs, st \in StatusInputs :
          nops < MaxInterviewOps /\ Quiescent /\ StartUpdate(r, c, id, st)
    \/ \E r \in ReqIds, u \in Users, id \in AppIdInputs :
          nops < MaxInterviewOps /\ Quiescent /\ StartWithdraw(r, u, id)
    \/ \E r \in ReqIds, c \in Companies, id \in AppIdInputs, data \in InterviewInputs :
          nops < MaxInterviewOps /\ Quiescent /\ StartInterview(r, c, id, data)
    \/ \E r \in ReqIds : UpdateFind(r)
    \/ \E r \in ReqIds : UpdatePaymentFindJob(r)
    \/ \E r \in ReqIds : UpdatePaymentCredit(r)
    \/ \E r \in ReqIds : UpdateIncHires(r)
    \/ \E r \in ReqIds : UpdateIncSuccessful(r)
    \/ \E r \in ReqIds : UpdateSave(r)
    \/ \E r \in ReqIds : UpdatePopulate(r)
    \/ \E r \in ReqIds : WithdrawFind(r)
    \/ \E r \in ReqIds : WithdrawSave(r)
    \/ \E r \in ReqIds : InterviewFind(r)
    \/ \E r \in ReqIds : InterviewSave(r)
    \/ \E r \in ReqIds : InterviewPopulate(r)

SpecInterview == InitApplied /\ [][NextInterview]_vars

(* Submissions while companies open and close their jobs *)

NextSubmit ==
    \/ \E r \in ReqIds, u \in Users, j \in JobIds, code \in InputCodes :
          nops < MaxSubmitOps /\ Quiescent /\ StartSubmit(r, u, j, code)
    \/ \E r \in ReqIds, c \in Companies, j \in JobIds, st \in JobStatusInputs :
          nops < MaxSubmitOps /\ Quiescent /\ StartJobUpdate(r, c, j, st)
    \/ \E r \in ReqIds : SubmitFindJob(r)
    \/ \E r \in ReqIds : SubmitFindExisting(r)
    \/ \E r \in ReqIds : SubmitFindReferrer(r)
    \/ \E r \in ReqIds : SubmitCreate(r)
    \/ \E r \in ReqIds : SubmitIncJob(r)
    \/ \E r \in ReqIds : SubmitIncReferrer(r)
    \/ \E r \in ReqIds : SubmitIncCompany(r)
    \/ \E r \in ReqIds : SubmitPopulate(r)
    \/ \E r \in ReqIds : JobUpdateFind(r)
    \/ \E r \in ReqIds : JobUpdateValidate(r)
    \/ \E r \in ReqIds : JobUpdateSave(r)
    \/ \E r \in ReqIds : JobUpdateInc(r)

SpecSubmit == InitPosted /\ [][NextSubmit]_vars

(* Status updates of an Application whose Job was deleted under it; the Job
   lookup of processReferralPayment finds nothing, so its credit step is
   never taken *)

NextOrphan ==
    \/ \E r \in ReqIds, c \in Companies, id \in AppIdInputs, st \in StatusInputs :
          nops < MaxOrphanOps /\ Quiescent /\ StartUpdate(r, c, id, st)
    \/ \E r \in ReqIds, u \in Users, id \in AppIdInputs :
          nops < MaxOrphanOps /\ Quiescent /\ StartWithdraw(r, u, id)
    \/ \E r \in ReqIds : UpdateFind(r)
    \/ \E r \in ReqIds : UpdatePaymentFindJob(r)
    \/ \E r \in ReqIds : UpdateIncHires(r)
    \/ \E r \in ReqIds : UpdateIncSuccessful(r)
    \/ \E r \in ReqIds : UpdateSave(r)
    \/ \E r \in ReqIds : UpdatePopulate(r)
    \/ \E r \in ReqIds : WithdrawFind(r)
    \/ \E r \in ReqIds : WithdrawSave(r)

SpecOrphan == InitOrphaned /\ [][NextOrphan]_vars

----------------------------------------------------------------------------
(* Interleaved requests: a request arrives while another is in flight *)

(* Interleaved submissions *)

NextSubmitRace ==
    \/ \E r \in ReqIds, u \in Users, j \in JobIds, code \in InputCodes :
          nops < MaxRaceOps /\ StartSubmit(r, u, j, code)
    \/ \E r \in ReqIds : SubmitFindJob(r)
    \/ \E r \in ReqIds : SubmitFindExisting(r)
    \/ \E r \in ReqIds : SubmitFindReferrer(r)
    \/ \E r \in ReqIds : SubmitCreate(r)
    \/ \E r \in ReqIds : SubmitIncJob(r)
    \/ \E r \in ReqIds : SubmitIncReferrer(r)
    \/ \E r \in ReqIds : SubmitIncCompany(r)
    \/ \E r \in ReqIds : SubmitPopulate(r)

SpecSubmitRace == InitPosted /\ [][NextSubmitRace]_vars

(* Interleaved submissions and registrations *)

NextReferralRace ==
    \/ \E r \in ReqIds, u \in Users, j \in JobIds, code \in InputCodes :
          nops < MaxRaceOps /\ StartSubmit(r, u, j, code)
    \/ \E r \in ReqIds, code \in InputCodes :
          nops < MaxRaceOps /\ StartRegister(r, code)
    \/ \E r \in ReqIds : SubmitFindJob(r)
    \/ \E r \in ReqIds : SubmitFindExisting(r)
    \/ \E r \in ReqIds : SubmitFindReferrer(r)
    \/ \E r \in ReqIds : SubmitCreate(r)
    \/ \E r \in ReqIds : SubmitIncJob(r)
    \/ \E r \in ReqIds : SubmitIncReferrer(r)
    \/ \E r \in ReqIds : SubmitIncCompany(r)
    \/ \E r \in ReqIds : SubmitPopulate(r)
    \/ \E r \in ReqIds : RegisterFindUser(r)
    \/ \E r \in ReqIds : RegisterFindCompany(r)
    \/ \E r \in ReqIds : RegisterFindReferrer(r)
    \/ \E r \in ReqIds : RegisterCreate(r)
    \/ \E r \in ReqIds : RegisterIncReferrer(r)

SpecReferralRace == InitPosted /\ [][NextReferralRace]_vars

(* Submissions when a store call made after Application.create rejects *)

NextSubmitFaults ==
    \/ \E r \in ReqIds, u \in Users, j \in JobIds, code \in InputCodes :
          nops < MaxRaceOps /\ StartSubmit(r, u, j, code)
    \/ \E r \in ReqIds : SubmitFindJob(r)
    \/ \E r \in ReqIds : SubmitFindExisting(r)
    \/ \E r \in ReqIds : SubmitFindReferrer(r)
    \/ \E r \in ReqIds : SubmitCreate(r)
    \/ \E r \in ReqIds : SubmitIncJob(r)
    \/ \E r \in ReqIds : SubmitIncReferrer(r)
    \/ \E r \in ReqIds : SubmitIncCompany(r)
    \/ \E r \in ReqIds : SubmitPopulate(r)
    \/ \E r \in ReqIds : SubmitStepFails(r)

SpecSubmitFaults == InitPosted /\ [][NextSubmitFaults]_vars

(* Interleaved status updates, withdrawals and interviews of an Application *)

\* the statuses sent with the interleaved status updates
RaceStatusInputs == {"reviewing", "interviewing", "offered", "hired", "rejected"}

NextTransitionRace ==
    \/ \E r \in ReqIds, c \in Companies, id \in DOMAIN applications,
          st \in RaceStatusInputs : nops < MaxRaceOps /\ StartUpdate(r, c, id, st)
    \/ \E r \in ReqIds, u \in Users, id \in DOMAIN applications :
          nops < MaxRaceOps /\ StartWithdraw(r, u, id)
    \/ \E r \in ReqIds, c \in Companies, id \in DOMAIN applications,
          data \in InterviewInputs : nops < MaxRaceOps /\ StartInterview(r, c, id, data)
    \/ \E r \in ReqIds : UpdateFind(r)
    \/ \E r \in ReqIds : UpdatePaymentFindJob(r)
    \/ \E r \in ReqIds : UpdatePaymentCredit(r)
    \/ \E r \in ReqIds : UpdateIncHires(r)
    \/ \E r \in ReqIds : UpdateIncSuccessful(r)
    \/ \E r \in ReqIds : UpdateSave(r)
    \/ \E r \in ReqIds : UpdatePopulate(r)
    \/ \E r \in ReqIds : WithdrawFind(r)
    \/ \E r \in ReqIds : WithdrawSave(r)
    \/ \E r \in ReqIds : InterviewFind(r)
    \/ \E r \in ReqIds : InterviewSave(r)
    \/ \E r \in ReqIds : InterviewPopulate(r)

SpecTransitionRace == InitApplied /\ [][NextTransitionRace]_vars

(* Callers of either account type on the application routes *)

\* the statuses sent with the status updates of the access checks
AccessStatusInputs == {"reviewing", "hired", "withdrawn", Absent}

NextAccess ==
    \/ \E r \in ReqIds, a \in Actors, j \in JobIdInputs, consent \in ConsentInputs :
          nops < MaxAccessOps /\ PostApplication(r, a, j, NullCode, consent)
    \/ \E r \in ReqIds, a \in Actors, id \in AppIdInputs, st \in AccessStatusInputs :
          nops < MaxAccessOps /\ PutApplicationStatus(r, a, id, st)
    \/ \E r \in ReqIds : SubmitFindJob(r)
    \/ \E r \in ReqIds : SubmitFindExisting(r)
    \/ \E r \in ReqIds : SubmitFindReferrer(r)
    \/ \E r \in ReqIds : SubmitCreate(r)
    \/ \E r \in ReqIds : SubmitIncJob(r)
    \/ \E r \in ReqIds : SubmitIncReferrer(r)
    \/ \E r \in ReqIds : SubmitIncCompany(r)
    \/ \E r \in ReqIds : SubmitPopulate(r)
    \/ \E r \in ReqIds : UpdateFind(r)
    \/ \E r \in ReqIds : UpdatePaymentFindJob(r)
    \/ \E r \in ReqIds : UpdatePaymentCredit(r)
    \/ \E r \in ReqIds : UpdateIncHires(r)
    \/ \E r \in ReqIds : UpdateIncSuccessful(r)
    \/ \E r \in ReqIds : UpdateSave(r)
    \/ \E r \in ReqIds : UpdatePopulate(r)

SpecAccess == InitApplied /\ [][NextAccess]_vars

(* Status updates when a store call of the handler rejects *)

NextSaveFaults ==
    \/ \E r \in ReqIds, c \in Companies, id \in AppIdInputs, st \in StatusInputs :
          nops < MaxRaceOps /\ StartUpdate(r, c, id, st)
    \/ \E r \in ReqIds : UpdateFind(r)
    \/ \E r \in ReqIds : UpdatePaymentFindJob(r)
    \/ \E r \in ReqIds : UpdatePaymentCredit(r)
    \/ \E r \in ReqIds : UpdateIncHires(r)
    \/ \E r \in ReqIds : UpdateIncSuccessful(r)
    \/ \E r \in ReqIds : UpdateSave(r)
    \/ \E r \in ReqIds : UpdatePopulate(r)
    \/ \E r \in ReqIds : UpdateSaveFails(r)
    \/ \E r \in ReqIds : UpdatePopulateFails(r)

SpecSaveFaults == InitApplied /\ [][NextSaveFaults]_vars

NextHireFaults ==
    \/ \E r \in ReqIds, c \in Companies, id \in AppIdInputs, st \in StatusInputs :
          nops < MaxRaceOps /\ StartUpdate(r, c, id, st)
    \/ \E r \in ReqIds : UpdateFind(r)
    \/ \E r \in ReqIds : UpdatePaymentFindJob(r)
    \/ \E r \in ReqIds : UpdatePaymentCredit(r)
    \/ \E r \in ReqIds : UpdateIncHires(r)
    \/ \E r \in ReqIds : UpdateIncSuccessful(r)
    \/ \E r \in ReqIds : UpdateSave(r)
    \/ \E r \in ReqIds : UpdatePopulate(r)
    \/ \E r \in ReqIds : UpdateIncFails(r)

SpecHireFaults == InitApplied /\ [][NextHireFaults]_vars

(* Interleaved cleanupExpiredJobs and updateJobStatus, while time passes *)

NextSweepRace ==
    \/ \E r \in ReqIds : nops < MaxRaceOps /\ ScheduledSweep(r)
    \/ \E r \in ReqIds, c \in Companies, j \in JobIds, st \in JobStatusInputs :
          nops < MaxRaceOps /\ StartJobUpdate(r, c, j, st)
    \/ \E r \in ReqIds : SweepFind(r)
    \/ \E r \in ReqIds : SweepUpdateMany(r)
    \/ \E r \in ReqIds : SweepDecrement(r)
    \/ \E r \in ReqIds : JobUpdateFind(r)
    \/ \E r \in ReqIds : JobUpdateValidate(r)
    \/ \E r \in ReqIds : JobUpdateSave(r)
    \/ \E r \in ReqIds : JobUpdateInc(r)
    \/ Tick

SpecSweepRace == InitDeadline /\ [][NextSweepRace]_vars

(* Interleaved submissions and updateJobStatus requests *)

NextPostingRace ==
    \/ \E r \in ReqIds, u \in Users, j \in JobIds, code \in PlainCodes :
          nops < MaxRaceOps /\ StartSubmit(r, u, j, code)
    \/ \E r \in ReqIds, c \in Companies, j \in JobIds, st \in JobStatuses :
          nops < MaxRaceOps /\ StartJobUpdate(r, c, j, st)
    \/ \E r \in ReqIds : SubmitFindJob(r)
    \/ \E r \in ReqIds : SubmitFindExisting(r)
    \/ \E r \in ReqIds : SubmitFindReferrer(r)
    \/ \E r \in ReqIds : SubmitCreate(r)
    \/ \E r \in ReqIds : SubmitIncJob(r)
    \/ \E r \in ReqIds : SubmitIncReferrer(r)
    \/ \E r \in ReqIds : SubmitIncCompany(r)
    \/ \E r \in ReqIds : SubmitPopulate(r)
    \/ \E r \in ReqIds : JobUpdateFind(r)
    \/ \E r \in ReqIds : JobUpdateValidate(r)
    \/ \E r \in ReqIds : JobUpdateSave(r)
    \/ \E r \in ReqIds : JobUpdateInc(r)

SpecPostingRace == InitPosted /\ [][NextPostingRace]_vars

(* Interleaved deleteJob and submitApplication *)

NextDeleteRace ==
    \/ \E r \in ReqIds, u \in Users, j \in JobIds, code \in InputCodes :
          nops < MaxRaceOps /\ StartSubmit(r, u, j, code)
    \/ \E r \in ReqIds, c \in Companies, j \in JobIds :
          nops < MaxRaceOps /\ StartDelete(r, c, j)
    \/ \E r \in ReqIds : SubmitFindJob(r)
    \/ \E r \in ReqIds : SubmitFindExisting(r)
    \/ \E r \in ReqIds : SubmitFindReferrer(r)
    \/ \E r \in ReqIds : SubmitCreate(r)
    \/ \E r \in ReqIds : SubmitIncJob(r)
    \/ \E r \in ReqIds : SubmitIncReferrer(r)
    \/ \E r \in ReqIds : SubmitIncCompany(r)
    \/ \E r \in ReqIds : SubmitPopulate(r)
    \/ \E r \in ReqIds : DeleteFind(r)
    \/ \E r \in ReqIds : DeleteRemove(r)
    \/ \E r \in ReqIds : DeleteInc(r)

SpecDeleteRace == InitPosted /\ [][NextDeleteRace]_vars

(* Interleaved createJob, updateJob, updateJobStatus and deleteJob *)

NextJobRace ==
    \/ \E r \in ReqIds, c \in Companies, st \in JobStatusInputs, f \in FeeInputs,
          d \in DeadlineInputs : nops < MaxRaceOps /\ StartCreateJob(r, c, st, f, d)
    \/ \E r \in ReqIds, c \in Companies, j \in JobIds, b \in UpdateBodies :
          nops < MaxRaceOps /\ StartUpdateJob(r, c, j, b)
    \/ \E r \in ReqIds, c \in Companies, j \in JobIds, st \in JobStatusInputs :
          nops < MaxRaceOps /\ StartJobUpdate(r, c, j, st)
    \/ \E r \in ReqIds, c \in Companies, j \in JobIds :
          nops < MaxRaceOps /\ StartDelete(r, c, j)
    \/ \E r \in ReqIds : CreateJobCreate(r)
    \/ \E r \in ReqIds : CreateJobInc(r)
    \/ \E r \in ReqIds : CreateJobPopulate(r)
    \/ \E r \in ReqIds : UpdateJobFind(r)
    \/ \E r \in ReqIds : UpdateJobFindByIdAndUpdate(r)
    \/ \E r \in ReqIds : JobUpdateFind(r)
    \/ \E r \in ReqIds : JobUpdateValidate(r)
    \/ \E r \in ReqIds : JobUpdateSave(r)
    \/ \E r \in ReqIds : JobUpdateInc(r)
    \/ \E r \in ReqIds : DeleteFind(r)
    \/ \E r \in ReqIds : DeleteRemove(r)
    \/ \E r \in ReqIds : DeleteInc(r)

SpecJobRace == InitOnePosted /\ [][NextJobRace]_vars

----------------------------------------------------------------------------
(* Properties *)

\* applicationSchema.methods.canBeUpdatedByCompany
canBeUpdatedByCompany(app) == app.status \notin {"hired", "rejected", "withdrawn"}

\* C1: once an Application is hired, rejected or withdrawn, every company
\* status update on it is refused and leaves its status and statusHistory
\* as they were: no step of such an update up to and including its save
\* changes them, and the update neither reaches the populate that follows
\* a save nor is answered with success.
C1_TerminalStatusIsFinal ==
    [][\A r \in ReqIds :
          (/\ Resumed(r, "updateApplicationStatus")
           /\ reqs[r].pc # "populate"
           /\ reqs[r].target \in DOMAIN applications
           /\ ~canBeUpdatedByCompany(applications[reqs[r].target]))
          => LET id == reqs[r].target IN
             /\ applications'[id].status = applications[id].status
             /\ applications'[id].statusHistory = applications[id].statusHistory
             /\ reqs'[r].pc # "populate"
             /\ reqs'[r].pc = "done" => reqs'[r].result # "ok"]_vars

\* C2: however often the hire update is repeated for one referral
\* Application, the referrer's pendingEarnings and totalEarnings are credited
\* with the job's fee only once: no step of an update of an Application whose
\* payment is already recorded credits anything.
C2_PaymentCreditedOnce ==
    [][\A r \in ReqIds :
          (/\ Resumed(r, "updateApplicationStatus")
           /\ reqs[r].target \in DOMAIN applications
           /\ applications[reqs[r].target].referralPayment.isEligible
           /\ applications[reqs[r].target].referredBy # Null)
          => LET referrer == applications[reqs[r].target].referredBy IN
             /\ users'[referrer].referralStats.totalEarnings
                   = users[referrer].referralStats.totalEarnings
             /\ users'[referrer].referralStats.pendingEarnings
                   = users[referrer].referralStats.pendingEarnings]_vars

\* the earnings of a referralStats record balance
Balanced(stats) == stats.totalEarnings = stats.pendingEarnings + stats.paidEarnings

\* C3: for every User, totalEarnings = pendingEarnings + paidEarnings in every
\* state of every sequence of submissions, status updates (hires) and
\* withdrawals, and the balance is kept by updateReferralStats, the method
\* that processes a payment, for every type and amount it is given.
C3_EarningsBalance ==
    \A u \in Users :
        /\ Balanced(users[u].referralStats)
        /\ \A type \in ReferralStatTypes, amount \in Fees :
              Balanced(updateReferralStats(users[u].referralStats, type, amount))

\* a referrer was credited for a hire; paying that credit out moves it whole
\* from pendingEarnings to paidEarnings
C3_Witness ==
    \E u \in Users, r \in ReqIds :
        /\ reqs[r].op = "updateApplicationStatus" /\ reqs[r].arg = "hired"
        /\ reqs[r].pc = "done" /\ reqs[r].result = "ok"
        /\ applications[reqs[r].target].referredBy = u
        /\ users[u].referralStats.totalEarnings > 0
        /\ users[u].referralStats.pendingEarnings = users[u].referralStats.totalEarnings
        /\ updateReferralStats(users[u].referralStats, "payment_processed",
                               users[u].referralStats.pendingEarnings).paidEarnings
              = users[u].referralStats.totalEarnings

\* the number of a company's jobs whose status is active
activeJobCount(c) ==
    Cardinality({j \in JobIds : /\ jobs[j].exists
                                /\ jobs[j].companyId = c
                                /\ jobs[j].status = "active"})

\* C4: for every Company, stats.activeJobs equals the number of its Jobs whose
\* status is active, after every completed job operation.
C4_ActiveJobsMatchesJobs ==
    Quiescent =>
        \A c \in Companies : companies[c].stats.activeJobs = activeJobCount(c)

\* an Application is stored for the pair (job j, applicant u)
HasApplied(j, u) ==
    \E i \in DOMAIN applications :
        applications[i].jobId = j /\ applications[i].applicantId = u

NoCounterChanged == jobs' = jobs /\ companies' = companies /\ users' = users

\* the submission of request r has not reached its Application.create
BeforeCreate(r) == reqs[r].pc \in {"findJob", "findExisting", "findReferrer", "create"}

\* C5 (as claimed): when an Application exists for (job, applicant), a second
\* submission for the pair, made alone, is rejected as a duplicate: no step
\* of it creates an Application or changes a Job, Company or User counter,
\* and its answer is "Already applied".
C5_DuplicateReportedAsDuplicate ==
    [][\A r \in ReqIds :
          (/\ Resumed(r, "submitApplication")
           /\ BeforeCreate(r)
           /\ HasApplied(reqs[r].target, reqs[r].caller))
          => /\ applications' = applications
             /\ NoCounterChanged
             /\ reqs'[r].pc \in {"findExisting", "done"}
             /\ reqs[r].pc = "findExisting" => reqs'[r].pc = "done"
             /\ reqs'[r].pc = "done" => reqs'[r].result = "Already applied"]_vars

\* C5 (amended): the second submission is rejected, creates no Application
\* and changes no counter; it is reported as a duplicate when the Job is
\* still active, and by the Job check that runs first otherwise.
C5_DuplicateRejected ==
    [][\A r \in ReqIds :
          (/\ Resumed(r, "submitApplication")
           /\ BeforeCreate(r)
           /\ HasApplied(reqs[r].target, reqs[r].caller))
          => /\ applications' = applications
             /\ NoCounterChanged
             /\ reqs'[r].pc \in {"findExisting", "done"}
             /\ reqs[r].pc = "findExisting" => reqs'[r].pc = "done"
             /\ reqs'[r].pc = "done"
                  => reqs'[r].result =
                        IF ~jobs[reqs[r].target].exists THEN "Job not found"
                        ELSE IF jobs[reqs[r].target].status # "active"
                             THEN "Job not accepting applications"
                             ELSE "Already applied"]_vars

\* a second submission for a stored pair was answered "Already applied"
C5_Witness ==
    \E r \in ReqIds :
        /\ reqs[r].op = "submitApplication"
        /\ reqs[r].pc = "done" /\ reqs[r].result = "Already applied"
        /\ HasApplied(reqs[r].target, reqs[r].caller)
        /\ jobs[reqs[r].target].stats.applications = 1

\* code is the referral code of user u, in any letter case
IsOwnCode(u, code) == code # NullCode /\ toUpperCase(code) = users[u].referralCode

\* C6: no step of a submission that carries the applicant's own referral code
\* (in any letter case) increments a totalReferrals or a referralApplications,
\* also while registrations and other submissions are in flight; the
\* Application it creates is a non-referral (isReferral false, referredBy and
\* referralCode null).
C6_NoSelfReferral ==
    [][\A r \in ReqIds :
          (Resumed(r, "submitApplication") /\ IsOwnCode(reqs[r].caller, reqs[r].arg))
          => /\ \A v \in Users : users'[v].referralStats.totalReferrals
                                   = users[v].referralStats.totalReferrals
             /\ \A x \in JobIds : jobs'[x].stats.referralApplications
                                   = jobs[x].stats.referralApplications
             /\ Len(applications') > Len(applications)
                  => /\ Len(applications') = Len(applications) + 1
                     /\ LET a == applications'[Len(applications')] IN
                        /\ a.applicantId = reqs[r].caller /\ a.jobId = reqs[r].target
                        /\ a.isReferral = FALSE
                        /\ a.referredBy = Null
                        /\ a.referralCode = NullCode]_vars

\* an application was created from the applicant's own code in lower case
C6_Witness ==
    \E r \in ReqIds, i \in DOMAIN applications :
        /\ reqs[r].op = "submitApplication"
        /\ reqs[r].pc = "done" /\ reqs[r].result = "created"
        /\ IsOwnCode(reqs[r].caller, reqs[r].arg)
        /\ reqs[r].arg # toUpperCase(reqs[r].arg)
        /\ applications[i].applicantId = reqs[r].caller
        /\ applications[i].jobId = reqs[r].target
        /\ ~applications[i].isReferral
        /\ users[reqs[r].caller].referralStats.totalReferrals = 0

RECURSIVE Collapse(_)
\* a sequence without its consecutive repetitions
Collapse(seq) ==
    IF Len(seq) <= 1 THEN seq
    ELSE IF seq[1] = seq[2] THEN Collapse(Tail(seq))
         ELSE <<seq[1]>> \o Collapse(Tail(seq))

\* the statuses an Application has gone through, from its creation on
StatusPath(app) ==
    Collapse(<<"pending">> \o [i \in 1..Len(app.statusHistory) |->
                                  app.statusHistory[i].status])

\* C7: for a referral Application (referredBy = A) on a job with fee F that
\* its company has moved pending -> reviewing -> shortlisted, the update to
\* hired adds exactly F to A's pendingEarnings and totalEarnings, 1 to A's
\* successfulReferrals and 1 to the company's totalHires, each in one step of
\* the request and once, its save records status hired and
\* referralPayment {isEligible: true, amount: F, status: pending}, and the
\* populate that follows changes nothing and answers ok; the earlier updates
\* of the scenario change none of these figures.
C7_ReferredHire ==
    [][\A r \in ReqIds :
          (Resumed(r, "updateApplicationStatus") /\ reqs[r].target \in DOMAIN applications)
          => LET id == reqs[r].target
                 a == applications[id]
                 A == a.referredBy
                 F == jobs[a.jobId].referralFee
                 pc == reqs[r].pc
             IN  (/\ a.isReferral /\ A # Null
                  /\ reqs[r].caller = a.companyId
                  /\ \/ StatusPath(a) \in {<<"pending">>, <<"pending", "reviewing">>,
                                           <<"pending", "reviewing", "shortlisted">>}
                     \/ /\ StatusPath(a) = <<"pending", "reviewing", "shortlisted", "hired">>
                        /\ reqs[r].arg = "hired" /\ pc = "populate")
                 => IF StatusPath(a) = <<"pending", "reviewing", "shortlisted">>
                       /\ reqs[r].arg = "hired"
                    THEN /\ users' =
                              CASE pc = "paymentCredit" ->
                                     [users EXCEPT
                                        ![A].referralStats.pendingEarnings = @ + F,
                                        ![A].referralStats.totalEarnings = @ + F]
                                [] pc = "incSuccessful" ->
                                     [users EXCEPT
                                        ![A].referralStats.successfulReferrals = @ + 1]
                                [] OTHER -> users
                         /\ companies' =
                              IF pc = "incHires"
                              THEN [companies EXCEPT ![a.companyId].stats.totalHires = @ + 1]
                              ELSE companies
                         /\ IF pc = "save"
                            THEN /\ applications'[id].status = "hired"
                                 /\ applications'[id].referralPayment
                                       = [isEligible |-> TRUE, amount |-> F,
                                          status |-> "pending"]
                            ELSE applications' = applications
                         /\ reqs'[r].pc =
                              CASE pc = "find" -> "paymentFindJob"
                                [] pc = "paymentFindJob" -> "paymentCredit"
                                [] pc = "paymentCredit" -> "incHires"
                                [] pc = "incHires" -> "incSuccessful"
                                [] pc = "incSuccessful" -> "save"
                                [] OTHER -> "populate"
                    ELSE IF StatusPath(a) = <<"pending", "reviewing", "shortlisted", "hired">>
                            /\ reqs[r].arg = "hired" /\ pc = "populate"
                    THEN /\ users' = users
                         /\ companies' = companies
                         /\ applications' = applications
                         /\ reqs'[r].pc = "done" /\ reqs'[r].result = "ok"
                    ELSE (reqs[r].arg \in {"reviewing", "shortlisted"})
                         => /\ users' = users
                            /\ companies' = companies
                            /\ applications'[id].referralPayment = a.referralPayment]_vars

\* a referral application was hired along pending, reviewing, shortlisted
C7_Witness ==
    \E id \in DOMAIN applications, r \in ReqIds :
        /\ reqs[r].op = "updateApplicationStatus" /\ reqs[r].target = id
        /\ reqs[r].pc = "done" /\ reqs[r].result = "ok"
        /\ applications[id].isReferral
        /\ applications[id].status = "hired"
        /\ StatusPath(applications[id])
              = <<"pending", "reviewing", "shortlisted", "hired">>
        /\ applications[id].referralPayment.isEligible
        /\ applications[id].referralPayment.amount
              = jobs[applications[id].jobId].referralFee
        /\ users[applications[id].referredBy].referralStats.successfulReferrals = 1

\* job j is active and its application deadline lies before time t
IsExpiredAt(j, t) ==
    /\ jobs[j].exists
    /\ jobs[j].status = "active"
    /\ jobs[j].applicationDeadline # NoDate
    /\ jobs[j].applicationDeadline < t

\* the jobs of company c that request q has found and not yet accounted for
LeftToDecrement(q, c) == Cardinality({x \in q.aux : x.companyId = c})

\* C8: a run of cleanupExpiredJobs, made alone at time t, closes every active
\* Job whose deadline is before t and sets its closedDate, changes no other
\* Job, and lowers each company's activeJobs by the number of its jobs the
\* run closed: by one for each of them, in the steps that follow the closing.
C8_SweepClosesExpired ==
    [][\A r \in ReqIds :
          Resumed(r, "cleanupExpiredJobs")
          => LET t == reqs[r].at IN
             CASE reqs[r].pc = "find" ->
                    /\ jobs' = jobs /\ companies' = companies
                    /\ reqs'[r].pc = "done" <=> \A j \in JobIds : ~IsExpiredAt(j, t)
               [] reqs[r].pc = "updateMany" ->
                    /\ \A j \in JobIds :
                          jobs'[j] = IF IsExpiredAt(j, t)
                                     THEN [jobs[j] EXCEPT !.status = "closed",
                                                          !.closedDate = t]
                                     ELSE jobs[j]
                    /\ companies' = companies
                    /\ \A c \in Companies :
                          LeftToDecrement(reqs'[r], c)
                             = Cardinality({j \in JobIds : IsExpiredAt(j, t)
                                                           /\ jobs[j].companyId = c})
               [] OTHER ->
                    /\ jobs' = jobs
                    /\ \A c \in Companies :
                          companies'[c].stats.activeJobs - LeftToDecrement(reqs'[r], c)
                             = companies[c].stats.activeJobs - LeftToDecrement(reqs[r], c)
                    /\ \E c \in Companies :
                          LeftToDecrement(reqs'[r], c) = LeftToDecrement(reqs[r], c) - 1
                    /\ reqs'[r].pc = "done" <=> reqs'[r].aux = {}]_vars

\* the sweep closed one of a company's two active jobs: 2 active became 1
C8_Witness ==
    \E r \in ReqIds, j \in JobIds, k \in JobIds :
        /\ reqs[r].op = "cleanupExpiredJobs"
        /\ reqs[r].pc = "done" /\ reqs[r].result = "swept"
        /\ jobs[j].exists /\ jobs[k].exists
        /\ jobs[j].companyId = jobs[k].companyId
        /\ jobs[j].status = "closed" /\ jobs[j].closedDate = reqs[r].at
        /\ jobs[j].applicationDeadline # NoDate
        /\ jobs[j].applicationDeadline < reqs[r].at
        /\ jobs[k].status = "active"
        /\ companies[jobs[j].companyId].stats.activeJobs = 1

\* C9: when two submissions for the same (job, applicant) interleave, at
\* most one Application is created, the losing request is answered as a
\* duplicate application and not as a server error, and the Job, Company
\* and referrer counters count one submission.
C9_ConcurrentDuplicate ==
    /\ \A i \in DOMAIN applications, k \in DOMAIN applications :
          (applications[i].jobId = applications[k].jobId
             /\ applications[i].applicantId = applications[k].applicantId) => i = k
    /\ \A r \in ReqIds :
          (reqs[r].op = "submitApplication" /\ reqs[r].pc = "done"
             /\ HasApplied(reqs[r].target, reqs[r].caller))
          => reqs[r].result \in {"created", "Already applied"}
    /\ Quiescent =>
          /\ \A j \in JobIds : jobs[j].stats.applications
                = Cardinality({i \in DOMAIN applications : applications[i].jobId = j})
          /\ \A c \in Companies : companies[c].stats.totalApplications
                = Cardinality({i \in DOMAIN applications : applications[i].companyId = c})
          /\ \A u \in Users : users[u].referralStats.totalReferrals
                = Cardinality({i \in DOMAIN applications : applications[i].referredBy = u})

\* C10: when a hire update and a withdrawal of one Application have both
\* read it before either saves, exactly one of them succeeds, and the hire
\* side effects are in place only if the final status is hired.
C10_SerializedTransitions ==
    \A r1 \in ReqIds, r2 \in ReqIds :
        (/\ reqs[r1].op = "updateApplicationStatus" /\ reqs[r1].arg = "hired"
         /\ reqs[r2].op = "withdrawApplication"
         /\ reqs[r1].pc = "done" /\ reqs[r2].pc = "done"
         /\ reqs[r1].target = reqs[r2].target
         /\ reqs[r1].result = "ok"
         /\ canBeUpdatedByCompany([status |-> reqs[r1].doc.origStatus]))
        => /\ reqs[r2].result # "ok"
           /\ LET a == applications[reqs[r1].target] IN
              /\ a.status = "hired"
              /\ a.isReferral => a.referralPayment.isEligible

\* C11: when one run of cleanupExpiredJobs and one updateJobStatus request
\* taking an active Job out of active interleave, the owning company's
\* activeJobs is lowered once for that Job: after both have finished it
\* equals the number of the company's active jobs again.
C11_SweepAndUpdateDecrementOnce ==
    \A r1 \in ReqIds, r2 \in ReqIds :
        (/\ nops = 2
         /\ reqs[r1].op = "cleanupExpiredJobs" /\ reqs[r1].pc = "done"
         /\ reqs[r2].op = "updateJobStatus" /\ reqs[r2].pc = "done"
         /\ reqs[r2].result = "ok"
         /\ reqs[r2].arg # "active")
        => \A c \in Companies : companies[c].stats.activeJobs = activeJobCount(c)

\* the Applications stored with field f equal to v
AppsWith(f, v) == {i \in DOMAIN applications : applications[i][f] = v}

\* C12: once every submission has been answered, also with an error, each
\* Application is matched by its counter increments and each increment by its
\* Application: the Job's applications and referralApplications, the
\* Company's totalApplications and the referrer's totalReferrals equal the
\* numbers of stored Applications they count.
C12_SubmitIsAtomic ==
    Quiescent =>
        /\ \A j \in JobIds :
              /\ jobs[j].stats.applications = Cardinality(AppsWith("jobId", j))
              /\ jobs[j].stats.referralApplications
                    = Cardinality({i \in AppsWith("jobId", j) : applications[i].isReferral})
        /\ \A c \in Companies :
              companies[c].stats.totalApplications = Cardinality(AppsWith("companyId", c))
        /\ \A u \in Users :
              users[u].referralStats.totalReferrals = Cardinality(AppsWith("referredBy", u))

\* C13: a withdrawApplication request succeeds only when its caller is the
\* Application's applicant and the Application's current status is pending,
\* reviewing or shortlisted: a withdrawal by another user, from interviewing,
\* offered, hired or rejected, or of an already withdrawn Application is
\* refused at the read, and a save of a withdrawal finds the stored status
\* still pending, reviewing or shortlisted; a refused withdrawal leaves the
\* Application as it was.
C13_WithdrawalRules ==
    [][\A r \in ReqIds :
          Resumed(r, "withdrawApplication")
          => LET id == reqs[r].target IN
             IF reqs[r].pc = "find"
             THEN /\ applications' = applications
                  /\ IF /\ id \in DOMAIN applications
                        /\ applications[id].applicantId = reqs[r].caller
                        /\ applications[id].status \in {"pending", "reviewing", "shortlisted"}
                     THEN reqs'[r].pc = "save"
                     ELSE reqs'[r].pc = "done" /\ reqs'[r].result # "ok"
             ELSE /\ applications[id].applicantId = reqs[r].caller
                  /\ IF applications[id].status \in {"pending", "reviewing", "shortlisted"}
                     THEN /\ reqs'[r].pc = "done" /\ reqs'[r].result = "ok"
                          /\ applications'[id].status = "withdrawn"
                     ELSE /\ reqs'[r].pc = "done" /\ reqs'[r].result # "ok"
                          /\ applications'[id].status = applications[id].status
                          /\ applications'[id].statusHistory
                                = applications[id].statusHistory]_vars

\* C14: a submission that finds its Job in status draft, paused, closed or
\* filled is answered "Job not accepting applications", creates no
\* Application and changes no counter; an Application is only created, in
\* status pending, by a submission that found its Job active at its check,
\* also while the company changes the Job's status.
C14_OnlyActiveJobsAccept ==
    [][/\ \A r \in ReqIds :
            (/\ Resumed(r, "submitApplication")
             /\ reqs[r].pc = "findJob"
             /\ jobs[reqs[r].target].exists
             /\ jobs[reqs[r].target].status \in {"draft", "paused", "closed", "filled"})
            => /\ reqs'[r].pc = "done"
               /\ reqs'[r].result = "Job not accepting applications"
               /\ applications' = applications
               /\ NoCounterChanged
       /\ Len(applications') > Len(applications)
            => /\ Len(applications') = Len(applications) + 1
               /\ LET a == applications'[Len(applications')] IN
                  /\ a.status = "pending"
                  /\ \E r \in ReqIds :
                        /\ Resumed(r, "submitApplication")
                        /\ reqs[r].pc = "create"
                        /\ reqs[r].target = a.jobId
                        /\ reqs[r].doc.status = "active"]_vars

\* a submission to a job that its company had taken out of active was refused
C14_Witness ==
    \E r1 \in ReqIds, r2 \in ReqIds :
        /\ reqs[r1].op = "updateJobStatus"
        /\ reqs[r1].pc = "done" /\ reqs[r1].result = "ok"
        /\ reqs[r2].op = "submitApplication"
        /\ reqs[r2].pc = "done" /\ reqs[r2].result = "Job not accepting applications"
        /\ reqs[r2].target = reqs[r1].target
        /\ jobs[reqs[r2].target].status \in {"draft", "paused", "closed", "filled"}
        /\ jobs[reqs[r2].target].stats.applications = 0
        /\ applications = <<>>

\* C15: no Application is accepted for a Job whose application deadline is
\* set and already in the past when the submission is made, also while the
\* Job is still active because the sweep has not closed it yet.
C15_DeadlineBoundsSubmissions ==
    [][\A r \in ReqIds :
          (/\ Resumed(r, "submitApplication")
           /\ jobs[reqs[r].target].exists
           /\ jobs[reqs[r].target].applicationDeadline # NoDate
           /\ jobs[reqs[r].target].applicationDeadline < now)
          => /\ applications' = applications
             /\ reqs'[r].pc = "done" => reqs'[r].result # "created"]_vars

\* C16 (as claimed): no step of a status update whose caller is not the
\* company owning the Application changes an Application or a counter, and
\* the request is answered "Access denied"; an Application only changes in a
\* step of a request of its owning company; a submission by a company-type
\* caller is denied and creates nothing, so every Application is created by
\* a user.
C16_ActorAuthority ==
    [][/\ \A r \in ReqIds :
            (/\ (Arrived(r) \/ reqs'[r].pc # reqs[r].pc)
             /\ reqs'[r].op = "updateApplicationStatus"
             /\ reqs'[r].target \in DOMAIN applications
             /\ ~(/\ reqs'[r].caller \in Companies
                  /\ reqs'[r].caller = applications[reqs'[r].target].companyId))
            => /\ applications' = applications
               /\ NoCounterChanged
               /\ reqs'[r].pc = "done" => reqs'[r].result = "Access denied"
       /\ \A id \in DOMAIN applications :
            applications'[id] # applications[id]
            => \E r \in ReqIds :
                  /\ Resumed(r, "updateApplicationStatus")
                  /\ reqs[r].target = id
                  /\ reqs[r].caller \in Companies
                  /\ reqs[r].caller = applications[id].companyId
       /\ \A r \in ReqIds :
            (/\ (Arrived(r) \/ reqs'[r].pc # reqs[r].pc)
             /\ reqs'[r].op = "submitApplication"
             /\ reqs'[r].caller \in Companies)
            => /\ reqs'[r].pc = "done"
               /\ reqs'[r].result = "Access denied"
               /\ applications' = applications
               /\ NoCounterChanged
       /\ Len(applications') > Len(applications)
            => applications'[Len(applications')].applicantId \in Users]_vars

\* C16 (amended): as claimed, but a company that does not own the
\* Application is answered "Access denied" only for a status of the list:
\* the route checks the body first and answers "Missing status" or "Invalid
\* status" to a company of either kind; a user-type caller is always
\* answered "Access denied".
C16_ActorAuthorityAfterValidation ==
    [][/\ \A r \in ReqIds :
            (/\ (Arrived(r) \/ reqs'[r].pc # reqs[r].pc)
             /\ reqs'[r].op = "updateApplicationStatus"
             /\ reqs'[r].target \in DOMAIN applications
             /\ ~(/\ reqs'[r].caller \in Companies
                  /\ reqs'[r].caller = applications[reqs'[r].target].companyId))
            => /\ applications' = applications
               /\ NoCounterChanged
               /\ reqs'[r].pc = "done"
                    => reqs'[r].result =
                          IF reqs'[r].caller \in Users THEN "Access denied"
                          ELSE IF reqs'[r].arg = Absent THEN "Missing status"
                          ELSE IF reqs'[r].arg \notin validStatuses
                               THEN "Invalid status"
                          ELSE "Access denied"
       /\ \A id \in DOMAIN applications :
            applications'[id] # applications[id]
            => \E r \in ReqIds :
                  /\ Resumed(r, "updateApplicationStatus")
                  /\ reqs[r].target = id
                  /\ reqs[r].caller \in Companies
                  /\ reqs[r].caller = applications[id].companyId
       /\ \A r \in ReqIds :
            (/\ (Arrived(r) \/ reqs'[r].pc # reqs[r].pc)
             /\ reqs'[r].op = "submitApplication"
             /\ reqs'[r].caller \in Companies)
            => /\ reqs'[r].pc = "done"
               /\ reqs'[r].result = "Access denied"
               /\ applications' = applications
               /\ NoCounterChanged
       /\ Len(applications') > Len(applications)
            => applications'[Len(applications')].applicantId \in Users]_vars

\* two companies that do not own the Application were refused a status
\* update: one with a status of the list, one with a word outside it
C16_Witness ==
    \E r1 \in ReqIds, r2 \in ReqIds :
        /\ reqs[r1].op = "updateApplicationStatus"
        /\ reqs[r1].pc = "done" /\ reqs[r1].result = "Access denied"
        /\ reqs[r1].target \in DOMAIN applications
        /\ reqs[r1].caller \in Companies
        /\ reqs[r1].caller # applications[reqs[r1].target].companyId
        /\ reqs[r2].op = "updateApplicationStatus"
        /\ reqs[r2].pc = "done" /\ reqs[r2].result = "Invalid status"
        /\ reqs[r2].target \in DOMAIN applications
        /\ reqs[r2].caller \in Companies
        /\ reqs[r2].caller # applications[reqs[r2].target].companyId
        /\ applications[reqs[r2].target].status = "pending"

\* C17: for every User, after any sequence of submissions and company
\* status updates, totalReferrals is at least successfulReferrals.
C17_ReferralsCoverSuccesses ==
    Quiescent =>
        \A u \in Users :
            users[u].referralStats.totalReferrals
               >= users[u].referralStats.successfulReferrals

\* C18: for every Job, in every reachable state, stats.applications is at
\* least stats.referralApplications.
C18_ApplicationsCoverReferrals ==
    \A j \in JobIds :
        jobs[j].exists
           => jobs[j].stats.applications >= jobs[j].stats.referralApplications

\* C19: the referralFee of a Job is fixed when the Job is created: no
\* operation changes the fee of an existing Job, and the amount recorded on
\* a hire is the fee the Job had when the Application was submitted.
C19_ReferralFeeIsFixed ==
    [][\A j \in JobIds :
          (jobs[j].exists /\ jobs'[j].exists)
             => jobs'[j].referralFee = jobs[j].referralFee]_vars

\* C20: every Application carries the companyId of the Job it references;
\* no job operation moves a Job to another company.
C20_ApplicationCompanyIsJobCompany ==
    \A i \in DOMAIN applications :
        jobs[applications[i].jobId].exists
           => applications[i].companyId = jobs[applications[i].jobId].companyId

\* C21: once an Application is created, its isReferral, referredBy and
\* referralCode never change: not by status updates, withdrawal, interview
\* scheduling or the recording of the payment on a hire, in any interleaving.
C21_AttributionIsFrozen ==
    [][\A id \in DOMAIN applications :
          /\ id \in DOMAIN applications'
          /\ applications'[id].isReferral = applications[id].isReferral
          /\ applications'[id].referredBy = applications[id].referredBy
          /\ applications'[id].referralCode = applications[id].referralCode]_vars

\* a referred Application that was withdrawn while an interview was scheduled
C21_Witness ==
    \E id \in DOMAIN applications :
        /\ applications[id].isReferral
        /\ applications[id].referredBy # Null
        /\ applications[id].referralCode = users[applications[id].referredBy].referralCode
        /\ applications[id].interviews = 1
        /\ applications[id].status = "withdrawn"
        /\ \A r \in ReqIds : reqs[r].pc = "done" /\ reqs[r].result = "ok"

\* code c written in capitals
Capitals(c) == [i \in 1..Len(c) |-> UpperOf[c[i]]]

\* the users whose stored referral code is code c in capitals
OwnersOf(c) == {v \in Users : users[v].referralCode = Capitals(c)}

C23_OneHistoryEntryPerTransition ==
    [][\A id \in DOMAIN applications :
          LET h == applications[id].statusHistory
              h2 == applications'[id].statusHistory
          IN  /\ Len(h2) >= Len(h)
              /\ SubSeq(h2, 1, Len(h)) = h
              /\ \A r \in ReqIds :
                    (/\ \/ Resumed(r, "updateApplicationStatus")
                        \/ Resumed(r, "withdrawApplication")
                        \/ /\ Resumed(r, "scheduleInterview")
                           /\ applications'[id].status # applications[id].status
                     /\ reqs[r].target = id
                     /\ reqs[r].pc = "save"
                     /\ \/ reqs'[r].pc = "populate"
                        \/ reqs'[r].pc = "done" /\ reqs'[r].result = "ok")
                    => /\ Len(h2) = Len(h) + 1
                       /\ h2[Len(h2)].status = applications'[id].status
                       /\ h2[Len(h2)].updatedBy = reqs[r].caller]_vars

\* C27: scheduling an interview for an Application whose status is
\* rejected, withdrawn or hired leaves its status and statusHistory unchanged.
C27_InterviewKeepsTerminalStatus ==
    [][\A r \in ReqIds :
          (/\ Resumed(r, "scheduleInterview")
           /\ reqs[r].target \in DOMAIN applications
           /\ applications[reqs[r].target].status \in {"rejected", "withdrawn", "hired"})
          => LET id == reqs[r].target IN
             /\ applications'[id].status = applications[id].status
             /\ applications'[id].statusHistory = applications[id].statusHistory]_vars

\* C28: an Application whose referralPayment is eligible is a referral, has
\* a referrer and is in status hired.
C28_EligibleMeansReferredHire ==
    \A id \in DOMAIN applications :
        applications[id].referralPayment.isEligible
           => /\ applications[id].isReferral
              /\ applications[id].referredBy # Null
              /\ applications[id].status = "hired"

RECURSIVE SumAmounts(_)
\* the sum of referralPayment.amount over the Applications with ids in S
SumAmounts(S) ==
    IF S = {} THEN 0
    ELSE LET i == CHOOSE x \in S : TRUE IN
         applications[i].referralPayment.amount + SumAmounts(S \ {i})

\* C29: with no request in flight, each User's stored totalEarnings equals
\* the sum of referralPayment.amount over the eligible Applications the user
\* referred, and the stored successfulReferrals equals the number of hired
\* Applications the user referred.
C29_LedgerMatchesApplications ==
    Quiescent =>
        \A u \in Users :
            LET mine == {i \in DOMAIN applications : applications[i].referredBy = u} IN
            /\ users[u].referralStats.totalEarnings
                  = SumAmounts({i \in mine : applications[i].referralPayment.isEligible})
            /\ users[u].referralStats.successfulReferrals
                  = Cardinality({i \in mine : applications[i].status = "hired"})

\* C30: every Application's jobId refers to an existing Job, in every
\* state of every interleaving of deleteJob with submitApplication.
C30_ApplicationsReferToJobs ==
    \A id \in DOMAIN applications : jobs[applications[id].jobId].exists

\* C24: when a referral Application is moved to hired and its Job no longer
\* exists, the update succeeds with status hired, referralPayment.isEligible
\* stays false and no step of the update changes the referrer's
\* pendingEarnings or totalEarnings.
C24_MissingJobMeansIneligible ==
    [][\A r \in ReqIds :
          (/\ Resumed(r, "updateApplicationStatus")
           /\ reqs[r].target \in DOMAIN applications
           /\ reqs[r].arg = "hired"
           /\ reqs[r].caller = applications[reqs[r].target].companyId
           /\ applications[reqs[r].target].isReferral
           /\ applications[reqs[r].target].referredBy # Null
           /\ ~jobs[applications[reqs[r].target].jobId].exists)
          => LET id == reqs[r].target
                 a == applications[id]
             IN  /\ users'[a.referredBy].referralStats.pendingEarnings
                       = users[a.referredBy].referralStats.pendingEarnings
                 /\ users'[a.referredBy].referralStats.totalEarnings
                       = users[a.referredBy].referralStats.totalEarnings
                 /\ reqs'[r].pc = "done"
                      => /\ reqs'[r].result = "ok"
                         /\ applications'[id].status = "hired"
                         /\ applications'[id].referralPayment.isEligible = FALSE]_vars

\* C25: the referrer's pendingEarnings, totalEarnings and successfulReferrals
\* and the company's totalHires are raised for an Application only if it is
\* persisted as hired: when the one request made so far was a hire that
\* was answered with an error and left the Application not hired (its save
\* failed), none of these counters has changed.
C25_CountersFollowThePersistedHire ==
    \A r \in ReqIds :
        (/\ nops = 1
         /\ reqs[r].op = "updateApplicationStatus" /\ reqs[r].pc = "done"
         /\ reqs[r].arg = "hired"
         /\ reqs[r].result = "Server error"
         /\ applications[reqs[r].target].status # "hired")
        => /\ \A u \in Users :
                 /\ users[u].referralStats.pendingEarnings = 0
                 /\ users[u].referralStats.totalEarnings = 0
                 /\ users[u].referralStats.successfulReferrals = 0
           /\ \A c \in Companies : companies[c].stats.totalHires = 0

\* C26: a failure of the totalHires or successfulReferrals increment of a
\* hire does not fail the request: the owner's hire request is answered with
\* success and the Application is persisted as hired with its history entry.
C26_HireSurvivesBookkeepingFailure ==
    \A r \in ReqIds :
        (/\ reqs[r].op = "updateApplicationStatus" /\ reqs[r].pc = "done"
         /\ reqs[r].arg = "hired"
         /\ reqs[r].result \notin {"Application not found", "Access denied"})
        => /\ reqs[r].result = "ok"
           /\ \E i \in DOMAIN applications[reqs[r].target].statusHistory :
                 applications[reqs[r].target].statusHistory[i].status = "hired"

====
